---------------------------- MODULE Spec2Model ----------------------------
(***************************************************************************)
(* pyform: deterministic finite automata with a partial transition         *)
(* function (pyform/automaton/dfa.py), Valmari's minimization              *)
(* (dfa.py, valmari.py, common/partition.py), Hopcroft-Karp equivalence    *)
(* with witness (dfa.py, common/disjoint.py) and isomorphism of the        *)
(* reachable subautomata (dfa.py).                                         *)
(*                                                                         *)
(* Python lists are functions over 0..len-1, so that every index of the    *)
(* model is the index of the code.  A dict is a function whose DOMAIN is   *)
(* the set of its keys.  A dict or set is iterated in ascending order of   *)
(* states and in the order of Alphabet for symbols (the insertion order    *)
(* of the dictionaries of tests/test_dfa.py).                              *)
(***************************************************************************)
EXTENDS Integers, Sequences, FiniteSets, TLC

VARIABLES dfa, other, pc, min, min2, eq, eqr, iso, iso2, disjoint, unions, call, ret, parts, marks, pending

vars == <<dfa, other, pc, min, min2, eq, eqr, iso, iso2, disjoint, unions, call, ret, parts, marks, pending>>

---------------------------------------------------------------------------
(* Symbols.  Alphabet lists the symbols of the model in their order        *)
(* ('a' < 'b' as Python strings, and the insertion order of the tests).    *)

Alphabet == <<"a", "b">>

Symbols == {Alphabet[i] : i \in 1..Len(Alphabet)}

SymRank(a) == CHOOSE i \in 1..Len(Alphabet) : Alphabet[i] = a

\* The symbols of set S as a sequence, in iteration order.
RECURSIVE SymSeqFrom(_, _)
SymSeqFrom(S, i) ==
    IF i > Len(Alphabet) THEN <<>>
    ELSE (IF Alphabet[i] \in S THEN <<Alphabet[i]>> ELSE <<>>) \o SymSeqFrom(S, i + 1)

SymSeq(S) == SymSeqFrom(S, 1)

\* The integers of finite set S as a sequence, ascending.
RECURSIVE IntSeq(_)
IntSeq(S) ==
    IF S = {} THEN <<>>
    ELSE LET m == CHOOSE x \in S : \A y \in S : x <= y
         IN  <<m>> \o IntSeq(S \ {m})

\* A Python list of n copies of v; a list as a function over 0..n-1.
Zeros(n) == [i \in 0..(n - 1) |-> 0]

ListOf(s) == [i \in 0..(Len(s) - 1) |-> s[i + 1]]

EmptyList == [i \in {} |-> 0]

Max(S) == CHOOSE x \in S : \A y \in S : y <= x

---------------------------------------------------------------------------
(* DFA (dfa.py).  delta is the nested dictionary: DOMAIN delta is the set  *)
(* of states that have a key, DOMAIN delta[q] the labels leaving q.        *)

DFA(states, finals, sigma, start, delta) ==
    [states |-> states, finals |-> finals, sigma |-> sigma,
     start |-> start, delta |-> delta]

\* DFA.iterate: the transitions (q, a, r) in dictionary order.
RECURSIVE IterateInner(_, _, _)
IterateInner(q, m, syms) ==
    IF syms = <<>> THEN <<>>
    ELSE <<  <<q, Head(syms), m[Head(syms)]>>  >> \o IterateInner(q, m, Tail(syms))

RECURSIVE IterateOuter(_, _)
IterateOuter(delta, keys) ==
    IF keys = <<>> THEN <<>>
    ELSE IterateInner(Head(keys), delta[Head(keys)], SymSeq(DOMAIN delta[Head(keys)]))
         \o IterateOuter(delta, Tail(keys))

iterate(D) == IterateOuter(D.delta, IntSeq(DOMAIN D.delta))

---------------------------------------------------------------------------
(* Partition (common/partition.py).                                        *)

NoKey == [given |-> FALSE, at |-> EmptyList]

KeyOf(f) == [given |-> TRUE, at |-> f]

\* list.sort(key=key) on list(range(count)): stable, by the rank of the key.
SortedByKey(count, key) ==
    LET before(x, y) == \/ SymRank(key.at[x]) < SymRank(key.at[y])
                        \/ SymRank(key.at[x]) = SymRank(key.at[y]) /\ x < y
        pos(e) == Cardinality({x \in 0..(count - 1) : before(x, e)})
    IN  [i \in 0..(count - 1) |-> CHOOSE e \in 0..(count - 1) : pos(e) = i]

\* The loop of Partition.__init__ over i in range(count), from index i on.
RECURSIVE PartitionByKey(_, _, _, _, _)
PartitionByKey(P, partition, i, count, key) ==
    IF i >= count THEN P
    ELSE LET element == P.elements[i]
             current == key.at[element]
             P1 == IF partition # current
                   THEN [P EXCEPT !.past[P.size] = i,
                                  !.size = P.size + 1,
                                  !.first[P.size + 1] = i]
                   ELSE P
             P2 == [P1 EXCEPT !.setof[element] = P1.size,
                              !.location[element] = i]
         IN  PartitionByKey(P2, current, i + 1, count, key)

Partition(count, key) ==
    LET P0 == [elements    |-> [i \in 0..(count - 1) |-> i],
               location    |-> [i \in 0..(count - 1) |-> i],
               first       |-> Zeros(count),
               past        |-> Zeros(count),
               setof       |-> Zeros(count),
               marked      |-> Zeros(count + 1),
               touched     |-> Zeros(count + 1),
               num_touched |-> 0,
               size        |-> 0]
    IN  IF ~(count # 0 /\ key.given)
        THEN IF count # 0
             THEN [P0 EXCEPT !.size = 1, !.past[0] = count]
             ELSE P0
        ELSE LET P1 == [P0 EXCEPT !.elements = SortedByKey(count, key)]
                 P2 == PartitionByKey(P1, key.at[P1.elements[0]], 0, count, key)
             IN  [P2 EXCEPT !.past[P2.size] = count, !.size = P2.size + 1]

\* A mark that counts the element without moving it to the marked positions.
MarkInPlace(P, element) ==
    LET equiv    == P.setof[element]
        index    == P.location[element]
        unmarked == P.first[equiv] + P.marked[equiv]
    IN  IF index < unmarked THEN P
        ELSE LET P5 == IF P.marked[equiv] = 0
                       THEN [P EXCEPT !.touched[P.num_touched] = equiv,
                                      !.num_touched = P.num_touched + 1]
                       ELSE P
             IN  [P5 EXCEPT !.marked[equiv] = P5.marked[equiv] + 1]

mark(P, element) ==
    LET equiv    == P.setof[element]
        index    == P.location[element]
        unmarked == P.first[equiv] + P.marked[equiv]
    IN  IF index < unmarked THEN P
        ELSE LET moved == P.elements[unmarked]
                 P1 == [P EXCEPT !.elements[index] = moved]
                 P2 == [P1 EXCEPT !.location[moved] = index]
                 P3 == [P2 EXCEPT !.elements[unmarked] = element]
                 P4 == [P3 EXCEPT !.location[element] = unmarked]
                 P5 == IF P4.marked[equiv] = 0
                       THEN [P4 EXCEPT !.touched[P4.num_touched] = equiv,
                                       !.num_touched = P4.num_touched + 1]
                       ELSE P4
             IN  [P5 EXCEPT !.marked[equiv] = P5.marked[equiv] + 1]

\* The for loop of split that writes setof for the new class.
SetClass(P, lo, hi, c) ==
    [P EXCEPT !.setof = [e \in DOMAIN P.setof |->
                            IF \E i \in lo..(hi - 1) : P.elements[i] = e
                            THEN c ELSE P.setof[e]]]

\* A split in which the marked elements are the new class, however many.
RECURSIVE SplitMarked(_)
SplitMarked(P) ==
    IF P.num_touched = 0 THEN P
    ELSE LET P1       == [P EXCEPT !.num_touched = P.num_touched - 1]
             equiv    == P1.touched[P1.num_touched]
             unmarked == P1.first[equiv] + P1.marked[equiv]
         IN  IF unmarked = P1.past[equiv]
             THEN SplitMarked([P1 EXCEPT !.marked[equiv] = 0])
             ELSE LET P2 == [P1 EXCEPT !.first[P1.size] = P1.first[equiv],
                                       !.past[P1.size]  = unmarked,
                                       !.first[equiv]   = unmarked]
                      P3 == SetClass(P2, P2.first[P2.size], P2.past[P2.size], P2.size)
                  IN  SplitMarked([P3 EXCEPT !.marked[equiv] = 0,
                                             !.marked[P3.size] = 0,
                                             !.size = P3.size + 1])

RECURSIVE split(_)
split(P) ==
    IF P.num_touched = 0 THEN P
    ELSE LET P1       == [P EXCEPT !.num_touched = P.num_touched - 1]
             equiv    == P1.touched[P1.num_touched]
             unmarked == P1.first[equiv] + P1.marked[equiv]
         IN  IF unmarked = P1.past[equiv]
             THEN split([P1 EXCEPT !.marked[equiv] = 0])
             ELSE LET P2 == IF P1.marked[equiv] <= P1.past[equiv] - unmarked
                            THEN [P1 EXCEPT !.first[P1.size] = P1.first[equiv],
                                            !.past[P1.size]  = unmarked,
                                            !.first[equiv]   = unmarked]
                            ELSE [P1 EXCEPT !.past[P1.size]  = P1.past[equiv],
                                            !.first[P1.size] = unmarked,
                                            !.past[equiv]    = unmarked]
                      P3 == SetClass(P2, P2.first[P2.size], P2.past[P2.size], P2.size)
                  IN  split([P3 EXCEPT !.marked[equiv] = 0,
                                       !.marked[P3.size] = 0,
                                       !.size = P3.size + 1])

---------------------------------------------------------------------------
(* ValmariState (automaton/valmari.py).                                    *)

\* zip(*dfa.iterate()) yields nothing when delta has keys but no transition,
\* and the unpacking into tails, labels, heads raises ValueError.
ValmariStateRaises(D) == DOMAIN D.delta # {} /\ iterate(D) = <<>>

ValmariState(D) ==
    LET trans == iterate(D)
        n     == Len(trans)
    IN  [num_states  |-> Cardinality(D.states),
         num_trans   |-> n,
         num_finals  |-> Cardinality(D.finals),
         num_reached |-> 0,
         adjacent    |-> Zeros(n),
         offset      |-> Zeros(Cardinality(D.states) + 1),
         tails       |-> [i \in 0..(n - 1) |-> trans[i + 1][1]],
         labels      |-> [i \in 0..(n - 1) |-> trans[i + 1][2]],
         heads       |-> [i \in 0..(n - 1) |-> trans[i + 1][3]]]

\* for i in range(num_trans): offset[trans[i]] += 1
RECURSIVE CountLoop(_, _, _, _)
CountLoop(offset, trans, i, n) ==
    IF i >= n THEN offset
    ELSE CountLoop([offset EXCEPT ![trans[i]] = @ + 1], trans, i + 1, n)

\* for i in range(num_states): offset[i + 1] += offset[i]
RECURSIVE PrefixLoop(_, _, _)
PrefixLoop(offset, i, n) ==
    IF i >= n THEN offset
    ELSE PrefixLoop([offset EXCEPT ![i + 1] = @ + offset[i]], i + 1, n)

\* for i in range(num_trans - 1, -1, -1): offset[trans[i]] -= 1; adjacent[...] = i
RECURSIVE PlaceLoop(_, _, _)
PlaceLoop(V, trans, i) ==
    IF i < 0 THEN V
    ELSE LET slot == V.offset[trans[i]] - 1
         IN  PlaceLoop([V EXCEPT !.offset[trans[i]] = slot,
                                 !.adjacent[slot] = i], trans, i - 1)

make_adjacent(V, forwards) ==
    LET trans == IF forwards THEN V.tails ELSE V.heads
        o1 == Zeros(V.num_states + 1)
        o2 == CountLoop(o1, trans, 0, V.num_trans)
        o3 == PrefixLoop(o2, 0, V.num_states)
    IN  PlaceLoop([V EXCEPT !.offset = o3], trans, V.num_trans - 1)

\* A ValmariState together with the blocks partition it works on.
Pair(V, blocks) == [v |-> V, blocks |-> blocks]

reach(S, state) ==
    LET index == S.blocks.location[state]
        nr    == S.v.num_reached
    IN  IF index < nr THEN S
        ELSE LET unreached == S.blocks.elements[nr]
                 B1 == [S.blocks EXCEPT !.elements[index] = unreached]
                 B2 == [B1 EXCEPT !.location[unreached] = index]
                 B3 == [B2 EXCEPT !.elements[nr] = state]
                 B4 == [B3 EXCEPT !.location[state] = nr]
             IN  Pair([S.v EXCEPT !.num_reached = nr + 1], B4)

\* for head in range(offset[elements[tail]], offset[elements[tail] + 1]):
\*     reach(blocks, heads[adjacent[head]])
RECURSIVE ReachRange(_, _, _, _)
ReachRange(S, heads, head, stop) ==
    IF head >= stop THEN S
    ELSE ReachRange(reach(S, heads[S.v.adjacent[head]]), heads, head + 1, stop)

\* while tail < num_reached: ...; tail += 1
RECURSIVE Traverse(_, _, _)
Traverse(S, heads, tail) ==
    IF tail >= S.v.num_reached THEN S
    ELSE LET e == S.blocks.elements[tail]
         IN  Traverse(ReachRange(S, heads, S.v.offset[e], S.v.offset[e + 1]),
                      heads, tail + 1)

\* A compaction that keeps transition i when its tail is reached, whatever
\* the direction of the traversal.
RECURSIVE CompactByTails(_, _, _, _, _)
CompactByTails(V, blocks, forwards, i, num_trans) ==
    IF i >= V.num_trans THEN [V EXCEPT !.num_trans = num_trans]
    ELSE IF blocks.location[V.tails[i]] < V.num_reached
         THEN CompactByTails([V EXCEPT !.heads[num_trans]  = V.heads[i],
                                       !.tails[num_trans]  = V.tails[i],
                                       !.labels[num_trans] = V.labels[i]],
                             blocks, forwards, i + 1, num_trans + 1)
         ELSE CompactByTails(V, blocks, forwards, i + 1, num_trans)

\* The compaction loop: keeps transition i when its tail (in the direction of
\* the traversal) is reached.  t and h are the local names tails and heads.
RECURSIVE Compact(_, _, _, _, _)
Compact(V, blocks, forwards, i, num_trans) ==
    IF i >= V.num_trans THEN [V EXCEPT !.num_trans = num_trans]
    ELSE LET t == IF forwards THEN V.tails ELSE V.heads
         IN  IF blocks.location[t[i]] < V.num_reached
             THEN Compact([V EXCEPT !.heads[num_trans]  = V.heads[i],
                                    !.tails[num_trans]  = V.tails[i],
                                    !.labels[num_trans] = V.labels[i]],
                          blocks, forwards, i + 1, num_trans + 1)
             ELSE Compact(V, blocks, forwards, i + 1, num_trans)

remove_unreachable(S, forwards) ==
    LET V1 == make_adjacent(S.v, forwards)
        h  == IF forwards THEN V1.heads ELSE V1.tails
        S2 == Traverse(Pair(V1, S.blocks), h, 0)
        V3 == Compact(S2.v, S2.blocks, forwards, 0, 0)
    IN  Pair([V3 EXCEPT !.num_reached = 0],
             [S2.blocks EXCEPT !.past[0] = S2.v.num_reached])

---------------------------------------------------------------------------
(* DFA.minimize_valmari (dfa.py).                                          *)

\* for state in self.finals: if location[state] < past[0]: reach(blocks, state)
RECURSIVE ReachFinals(_, _)
ReachFinals(S, finals) ==
    IF finals = <<>> THEN S
    ELSE ReachFinals(IF S.blocks.location[Head(finals)] < S.blocks.past[0]
                     THEN reach(S, Head(finals)) ELSE S,
                     Tail(finals))

\* A variant of Pruned without the backward pruning of line 184: the states
\* that reach no accepting state stay in block 0.
PrunedForwards(D) ==
    LET S0 == Pair(ValmariState(D), Partition(Cardinality(D.states), NoKey))
        S1 == remove_unreachable(reach(S0, D.start), TRUE)
        S2 == ReachFinals(S1, IntSeq(D.finals))
    IN  Pair([S2.v EXCEPT !.num_finals = S2.v.num_reached], S2.blocks)

\* Lines 167-184: both prunings done, num_finals set, before the first split.
Pruned(D) ==
    LET S0 == Pair(ValmariState(D), Partition(Cardinality(D.states), NoKey))
        S1 == remove_unreachable(reach(S0, D.start), TRUE)
        S2 == ReachFinals(S1, IntSeq(D.finals))
        S3 == Pair([S2.v EXCEPT !.num_finals = S2.v.num_reached], S2.blocks)
    IN  remove_unreachable(S3, FALSE)

\* Lines 189-193: the split into final and nonfinal useful states.
SplitFinals(S) ==
    LET B1 == [S.blocks EXCEPT !.marked[0] = S.v.num_finals]
    IN  IF S.v.num_finals # 0
        THEN Pair(S.v, split([B1 EXCEPT !.touched[B1.num_touched] = 0,
                                        !.num_touched = B1.num_touched + 1]))
        ELSE Pair(S.v, B1)

\* A variant of MarkTails that marks the tail of the first transition of the
\* cord only, so that a block is split by a single transition.
MarkOneTail(blocks, cords, V, i, stop) ==
    IF i >= stop THEN blocks
    ELSE mark(blocks, V.tails[cords.elements[i]])

\* for i in range(first, past): blocks.mark(tails[cords.elements[i]])
RECURSIVE MarkTails(_, _, _, _, _)
MarkTails(blocks, cords, V, i, stop) ==
    IF i >= stop THEN blocks
    ELSE MarkTails(mark(blocks, V.tails[cords.elements[i]]), cords, V, i + 1, stop)

\* for j in range(offset[e], offset[e + 1]): cords.mark(adjacent[j])
RECURSIVE MarkAdjacent(_, _, _, _)
MarkAdjacent(cords, V, j, stop) ==
    IF j >= stop THEN cords
    ELSE MarkAdjacent(mark(cords, V.adjacent[j]), V, j + 1, stop)

\* for i in range(blocks.first[block], blocks.past[block]): ...
RECURSIVE MarkIncoming(_, _, _, _, _)
MarkIncoming(cords, blocks, V, i, stop) ==
    IF i >= stop THEN cords
    ELSE LET e == blocks.elements[i]
         IN  MarkIncoming(MarkAdjacent(cords, V, V.offset[e], V.offset[e + 1]),
                          blocks, V, i + 1, stop)

\* An inner loop that counts the blocks without marking or splitting cords.
RefineCordsSkipped(R) == [R EXCEPT !.block = R.blocks.size]

\* while block < blocks.size: ...; cords.split(); block += 1
RECURSIVE RefineCords(_)
RefineCords(R) ==
    IF R.block >= R.blocks.size THEN R
    ELSE LET c == MarkIncoming(R.cords, R.blocks, R.v,
                               R.blocks.first[R.block], R.blocks.past[R.block])
         IN  RefineCords([R EXCEPT !.cords = split(c), !.block = R.block + 1])

\* while cord < cords.size: ...; blocks.split(); cord += 1; (inner while)
RECURSIVE RefineBlocks(_)
RefineBlocks(R) ==
    IF R.cord >= R.cords.size THEN R
    ELSE LET b == MarkTails(R.blocks, R.cords, R.v,
                            R.cords.first[R.cord], R.cords.past[R.cord])
         IN  RefineBlocks(RefineCords([R EXCEPT !.blocks = split(b),
                                                !.cord = R.cord + 1]))

\* Lines 197-217: the cords partition and the refinement loop, run to its exit.
Refined(D) ==
    LET S == SplitFinals(Pruned(D))
        cords == Partition(S.v.num_trans, KeyOf(S.v.labels))
    IN  RefineBlocks([v      |-> make_adjacent(S.v, FALSE),
                      blocks |-> S.blocks,
                      cords  |-> cords,
                      block  |-> 1,
                      cord   |-> 0])

\* Lines 222-241: the minimized DFA.  delta[source][label] is assigned for the
\* transitions i in ascending order, so the last assignment stays.
Emit(D, R) ==
    LET V == R.v
        B == R.blocks
        rep == {i \in 0..(V.num_trans - 1) :
                   B.location[V.tails[i]] = B.first[B.setof[V.tails[i]]]}
        src(i) == B.setof[V.tails[i]]
        last(c, a) == Max({i \in rep : src(i) = c /\ V.labels[i] = a})
    IN  DFA(0..(B.size - 1),
            {i \in 0..(B.size - 1) : B.first[i] < V.num_finals},
            {V.labels[i] : i \in rep},
            B.setof[D.start],
            [c \in {src(i) : i \in rep} |->
                [a \in {V.labels[i] : i \in {j \in rep : src(j) = c}} |->
                    B.setof[V.heads[last(c, a)]]]])

NoDFA == DFA({}, {}, {}, 0, EmptyList)

Returned(value) == [raised |-> "", value |-> value]

Raised(exception, value) == [raised |-> exception, value |-> value]

minimize_valmari(D) ==
    IF ValmariStateRaises(D) THEN Raised("ValueError", NoDFA)
    ELSE Returned(Emit(D, Refined(D)))

---------------------------------------------------------------------------
(* DisjointSet (common/disjoint.py).  rank and parent are dictionaries.    *)

DisjointSet == [rank |-> EmptyList, parent |-> EmptyList,
                num_elems |-> 0, num_equiv |-> 0]

\* A make_set that inserts i anew also when it is a key.
MakeSetAnew(ds, i) ==
    [rank      |-> (i :> 0) @@ ds.rank,
     parent    |-> (i :> i) @@ ds.parent,
     num_elems |-> ds.num_elems + 1,
     num_equiv |-> ds.num_equiv + 1]

make_set(ds, i) ==
    IF i \in DOMAIN ds.parent THEN ds
    ELSE [rank      |-> (i :> 0) @@ ds.rank,
          parent    |-> (i :> i) @@ ds.parent,
          num_elems |-> ds.num_elems + 1,
          num_equiv |-> ds.num_equiv + 1]

\* root = i; while parent[root] != root: root = parent[root]
RECURSIVE RootOf(_, _)
RootOf(parent, root) ==
    IF parent[root] = root THEN root ELSE RootOf(parent, parent[root])

\* while parent[i] != root: parent[i], i = root, parent[i]
RECURSIVE Compress(_, _, _)
Compress(parent, i, root) ==
    IF parent[i] = root THEN parent
    ELSE Compress([parent EXCEPT ![i] = root], parent[i], root)

\* find returns the root; the set it leaves behind is ds.
find(ds, i) ==
    LET d1   == make_set(ds, i)
        root == RootOf(d1.parent, i)
    IN  [ds |-> [d1 EXCEPT !.parent = Compress(d1.parent, i, root)], root |-> root]

\* A variant of union that takes i and j for the roots of their classes.
UnionWithoutFind(ds, i, j) ==
    LET d == make_set(make_set(ds, i), j)
    IN  IF i = j THEN [ds |-> d, root |-> i]
        ELSE LET swap  == d.rank[i] < d.rank[j]
                 iroot == IF swap THEN j ELSE i
                 jroot == IF swap THEN i ELSE j
                 d1 == [d EXCEPT !.parent[jroot] = iroot,
                                 !.num_equiv = d.num_equiv - 1]
                 d2 == IF d1.rank[iroot] = d1.rank[jroot]
                       THEN [d1 EXCEPT !.rank[iroot] = @ + 1]
                       ELSE d1
             IN  [ds |-> d2, root |-> iroot]

\* A variant of union without the exchange of line 96: the root of j is
\* attached under the root of i whatever their ranks.
UnionLeft(ds, i, j) ==
    LET fi == find(ds, i)
        fj == find(fi.ds, j)
        d  == fj.ds
    IN  IF fi.root = fj.root THEN [ds |-> d, root |-> fi.root]
        ELSE LET d1 == [d EXCEPT !.parent[fj.root] = fi.root,
                                 !.num_equiv = d.num_equiv - 1]
                 d2 == IF d1.rank[fi.root] = d1.rank[fj.root]
                       THEN [d1 EXCEPT !.rank[fi.root] = @ + 1]
                       ELSE d1
             IN  [ds |-> d2, root |-> fi.root]

\* A variant of union that merges nothing.
UnionNothing(ds, i, j) == [ds |-> ds, root |-> i]

\* A variant of union that leaves the rank of the surviving root as it is.
UnionKeepRank(ds, i, j) ==
    LET fi == find(ds, i)
        fj == find(fi.ds, j)
        d  == fj.ds
    IN  IF fi.root = fj.root THEN [ds |-> d, root |-> fi.root]
        ELSE LET swap  == d.rank[fi.root] < d.rank[fj.root]
                 iroot == IF swap THEN fj.root ELSE fi.root
                 jroot == IF swap THEN fi.root ELSE fj.root
             IN  [ds |-> [d EXCEPT !.parent[jroot] = iroot,
                                   !.num_equiv = d.num_equiv - 1],
                  root |-> iroot]

union(ds, i, j) ==
    LET fi == find(ds, i)
        fj == find(fi.ds, j)
        d  == fj.ds
    IN  IF fi.root = fj.root THEN [ds |-> d, root |-> fi.root]
        ELSE LET swap  == d.rank[fi.root] < d.rank[fj.root]
                 iroot == IF swap THEN fj.root ELSE fi.root
                 jroot == IF swap THEN fi.root ELSE fj.root
                 d1 == [d EXCEPT !.parent[jroot] = iroot,
                                 !.num_equiv = d.num_equiv - 1]
                 d2 == IF d1.rank[iroot] = d1.rank[jroot]
                       THEN [d1 EXCEPT !.rank[iroot] = @ + 1]
                       ELSE d1
             IN  [ds |-> d2, root |-> iroot]

---------------------------------------------------------------------------
(* DFA.equivalent_hopcroft_karp (dfa.py).  Python's None is the empty      *)
(* option <<>>, a value x that is returned where None could be is <<x>>.   *)

None == <<>>

Some(x) == <<x>>

\* A variant of Get without the dummy sink: an undefined transition stays
\* in its state.
GetStay(D, q, symbol, dummy) ==
    IF q \in DOMAIN D.delta /\ symbol \in DOMAIN D.delta[q]
    THEN D.delta[q][symbol] ELSE q

\* delta[q].get(symbol, dummy) if q in delta else dummy
Get(D, q, symbol, dummy) ==
    IF q \in DOMAIN D.delta /\ symbol \in DOMAIN D.delta[q]
    THEN D.delta[q][symbol] ELSE dummy

\* The symbols the loop of line 281 goes through.
LoopSigma(M, N) == M.sigma

\* sigma is a set of strings: the order in which it is iterated depends on
\* the hash seed of the run, so it is any order of the symbols.
SetOrders ==
    {s \in [1..Len(Alphabet) -> Symbols] : \A a \in Symbols : \E i \in DOMAIN s : s[i] = a}

InOrder(S, order) == SelectSeq(order, LAMBDA a : a \in S)

\* for symbol in self.sigma: queue.append((witness + [symbol], q2, r2))
RECURSIVE Successors(_, _, _, _, _, _)
Successors(M, N, witness, q1, r1, syms) ==
    IF syms = <<>> THEN <<>>
    ELSE LET dummy1 == 1 + Max(M.states)
             dummy2 == 1 + Max(N.states)
             a      == Head(syms)
         IN  << <<Append(witness, a), Get(M, q1, a, dummy1), Get(N, r1, a, dummy2)>> >>
             \o Successors(M, N, witness, q1, r1, Tail(syms))

\* A variant of HopcroftKarpLoop that looks up the shifted id r1 + offset,
\* the id of the disjoint set, in the accepting states of N as well.
RECURSIVE ShiftedFinalsLoop(_, _, _, _, _)
ShiftedFinalsLoop(M, N, equiv, queue, order) ==
    IF queue = <<>> THEN [b |-> TRUE, w |-> None]
    ELSE LET offset  == 1 + (1 + Max(M.states))
             witness == Head(queue)[1]
             q1      == Head(queue)[2]
             r1      == Head(queue)[3]
             f1      == find(equiv, q1)
             f2      == find(f1.ds, r1 + offset)
         IN  IF f1.root = f2.root
             THEN ShiftedFinalsLoop(M, N, f2.ds, Tail(queue), order)
             ELSE IF (q1 \in M.finals) # (r1 + offset \in N.finals)
             THEN [b |-> FALSE, w |-> Some(witness)]
             ELSE ShiftedFinalsLoop(M, N, union(f2.ds, q1, r1 + offset).ds,
                      Tail(queue) \o Successors(M, N, witness, q1, r1,
                                                InOrder(LoopSigma(M, N), order)),
                      order)

\* while queue: ...  The result is the pair (b, w) as [b, w].
RECURSIVE HopcroftKarpLoop(_, _, _, _, _)
HopcroftKarpLoop(M, N, equiv, queue, order) ==
    IF queue = <<>> THEN [b |-> TRUE, w |-> None]
    ELSE LET offset  == 1 + (1 + Max(M.states))
             witness == Head(queue)[1]
             q1      == Head(queue)[2]
             r1      == Head(queue)[3]
             f1      == find(equiv, q1)
             f2      == find(f1.ds, r1 + offset)
         IN  IF f1.root = f2.root
             THEN HopcroftKarpLoop(M, N, f2.ds, Tail(queue), order)
             ELSE IF (q1 \in M.finals) # (r1 \in N.finals)
             THEN [b |-> FALSE, w |-> Some(witness)]
             ELSE HopcroftKarpLoop(M, N, union(f2.ds, q1, r1 + offset).ds,
                      Tail(queue) \o Successors(M, N, witness, q1, r1,
                                                InOrder(LoopSigma(M, N), order)),
                      order)

equivalent_hopcroft_karp(M, N, order) ==
    HopcroftKarpLoop(M, N, DisjointSet, << <<<<>>, M.start, N.start>> >>, order)

---------------------------------------------------------------------------
(* DFA.isomorphic (dfa.py).  The bidict is the function isomorphism; its   *)
(* inverse is read off it.                                                 *)

\* A variant of Values that finds no state of N in the mapping, so that two
\* states of M may be mapped to one state of N.
NoValues(f) == {}

Inverse(f, r) == CHOOSE q \in DOMAIN f : f[q] = r

Values(f) == {f[q] : q \in DOMAIN f}

\* A variant of BothWithoutKey that passes over a pair as soon as the state
\* of M lacks a key of delta.
FirstWithoutKey(M, N, q1, r1) == q1 \notin DOMAIN M.delta

\* The test of lines 371-372: both states lack a key of delta.
BothWithoutKey(M, N, q1, r1) == q1 \notin DOMAIN M.delta /\ r1 \notin DOMAIN N.delta

\* The test of lines 378-379.
EdgesDiffer(M, N, q1, r1) ==
    \/ (q1 \in DOMAIN M.delta) # (r1 \in DOMAIN N.delta)
    \/ DOMAIN M.delta[q1] # DOMAIN N.delta[r1]

\* for symbol, q2 in self.delta[q1].items(): ...
\* st = [failed, isomorphism, worklist]
RECURSIVE MatchEdges(_, _, _, _, _, _)
MatchEdges(M, N, q1, r1, syms, st) ==
    IF syms = <<>> THEN st
    ELSE LET q2 == M.delta[q1][Head(syms)]
             r2 == N.delta[r1][Head(syms)]
             f  == st.isomorphism
         IN  IF q2 \in DOMAIN f
             THEN IF r2 # f[q2] THEN [st EXCEPT !.failed = TRUE]
                  ELSE MatchEdges(M, N, q1, r1, Tail(syms), st)
             ELSE IF r2 \in Values(f)
             THEN IF q2 # Inverse(f, r2) THEN [st EXCEPT !.failed = TRUE]
                  ELSE MatchEdges(M, N, q1, r1, Tail(syms), st)
             ELSE MatchEdges(M, N, q1, r1, Tail(syms),
                      [st EXCEPT !.isomorphism = (q2 :> r2) @@ f,
                                 !.worklist = Append(st.worklist, <<q2, r2>>)])

\* while worklist: q1, r1 = worklist.pop(); ...
RECURSIVE IsomorphicLoop(_, _, _)
IsomorphicLoop(M, N, st) ==
    IF st.worklist = <<>> THEN Some(st.isomorphism)
    ELSE LET n    == Len(st.worklist)
             q1   == st.worklist[n][1]
             r1   == st.worklist[n][2]
             rest == [st EXCEPT !.worklist = SubSeq(st.worklist, 1, n - 1)]
         IN  IF (q1 \in M.finals) # (r1 \in N.finals) THEN None
             ELSE IF BothWithoutKey(M, N, q1, r1) THEN IsomorphicLoop(M, N, rest)
             ELSE IF EdgesDiffer(M, N, q1, r1) THEN None
             ELSE LET st2 == MatchEdges(M, N, q1, r1,
                                        SymSeq(DOMAIN M.delta[q1]), rest)
                  IN  IF st2.failed THEN None ELSE IsomorphicLoop(M, N, st2)

isomorphic(M, N) ==
    IsomorphicLoop(M, N, [failed      |-> FALSE,
                          isomorphism |-> (M.start :> N.start),
                          worklist    |-> << <<M.start, N.start>> >>])

---------------------------------------------------------------------------
(* The language of a DFA, stated on sets: what the claims speak about.     *)
(* None of this is taken from the algorithms above.                        *)

\* The state after q on a, or Dead where delta is undefined (a rejecting trap).
Dead == 0 - 1

Step(D, q, a) ==
    IF q \in DOMAIN D.delta /\ a \in DOMAIN D.delta[q] THEN D.delta[q][a] ELSE Dead

RECURSIVE RunFrom(_, _, _)
RunFrom(D, q, w) == IF w = <<>> THEN q ELSE RunFrom(D, Step(D, q, Head(w)), Tail(w))

Accepts(D, w) == RunFrom(D, D.start, w) \in D.finals

\* The length of a shortest string over A that exactly one of (M from p) and
\* (N from r) accepts, found level by level over the pairs of states the
\* strings of each length lead to; NoDifference when there is none.
NoDifference == 0 - 1

RECURSIVE Difference(_, _, _, _, _, _)
Difference(M, N, A, level, seen, d) ==
    IF \E x \in level : (x[1] \in M.finals) # (x[2] \in N.finals) THEN d
    ELSE LET next == {<<Step(M, x[1], a), Step(N, x[2], a)>> : x \in level, a \in A}
                     \ (seen \cup level)
         IN  IF next = {} THEN NoDifference
             ELSE Difference(M, N, A, next, seen \cup level, d + 1)

ShortestDifference(M, N) ==
    Difference(M, N, M.sigma \cup N.sigma, {<<M.start, N.start>>}, {}, 0)

SameLanguage(M, N) == ShortestDifference(M, N) = NoDifference

\* States p and q of D accept the same strings.
Labels(D) == UNION {DOMAIN D.delta[q] : q \in DOMAIN D.delta}

StatesEquivalent(D, p, q) ==
    Difference(D, D, D.sigma \cup Labels(D), {<<p, q>>}, {}, 0) = NoDifference

Edges(D) ==
    UNION {{<<q, D.delta[q][a]>> : a \in DOMAIN D.delta[q]} : q \in DOMAIN D.delta}

\* The least set that holds S and every state with an edge from (to) it.
RECURSIVE Closure(_, _, _)
Closure(E, S, forwards) ==
    LET more == IF forwards THEN {e[2] : e \in {x \in E : x[1] \in S}}
                            ELSE {e[1] : e \in {x \in E : x[2] \in S}}
    IN  IF more \subseteq S THEN S ELSE Closure(E, S \cup more, forwards)

ReachableStates(D) == Closure(Edges(D), {D.start}, TRUE)

ProductiveStates(D) == Closure(Edges(D), D.finals, FALSE)

UsefulStates(D) == ReachableStates(D) \cap ProductiveStates(D)

\* No two distinct states of D accept the same strings.
Reduced(D) == \A p, q \in D.states : p # q => ~StatesEquivalent(D, p, q)

---------------------------------------------------------------------------
(* The automata the operations are run on.                                 *)

MaxStates == 3

MaxTrans == 3

MaxKeyed == 2

\* The nested dictionary with the keys K that holds the transitions f, a
\* function from pairs (q, a) to states.
Nested(K, f) ==
    [q \in K |-> [a \in {x[2] : x \in {y \in DOMAIN f : y[1] = q}} |-> f[<<q, a>>]]]

\* The sets of at most t pairs (q, a) on which a delta over 0..n-1 and the
\* labels A is defined.
Domains(n, A, t) == {T \in SUBSET ((0..(n - 1)) \X A) : Cardinality(T) <= t}

\* The sets of keys of a dictionary that is defined on S: the states with a
\* transition (the dictionaries of the tests) and, for automata of at most
\* MaxKeyed states, any further states, whose inner dictionary is empty.
KeySets(n, S) ==
    LET used == {x[1] : x \in S}
    IN  IF n <= MaxKeyed
        THEN {used \cup K : K \in SUBSET ((0..(n - 1)) \ used)}
        ELSE {used}

\* The inputs and the expected outputs of tests/test_dfa.py.
TestCases == <<
    [dfa |-> DFA(0..7, 1..6, {"a", "b"}, 0,
        (0 :> ("a" :> 1 @@ "b" :> 4) @@ 1 :> ("a" :> 2 @@ "b" :> 3) @@
         2 :> ("a" :> 7 @@ "b" :> 7) @@ 3 :> ("a" :> 7 @@ "b" :> 3) @@
         4 :> ("a" :> 5 @@ "b" :> 6) @@ 5 :> ("a" :> 7 @@ "b" :> 7) @@
         6 :> ("a" :> 7 @@ "b" :> 6) @@ 7 :> ("a" :> 7 @@ "b" :> 7))),
     expected |-> DFA(0..3, {1, 2, 3}, {"a", "b"}, 0,
        (0 :> ("a" :> 1 @@ "b" :> 1) @@ 1 :> ("a" :> 2 @@ "b" :> 3) @@
         3 :> ("b" :> 3)))],
    [dfa |-> DFA(0..6, {4, 5, 6}, {"a", "b"}, 0,
        (0 :> ("a" :> 4 @@ "b" :> 1) @@ 1 :> ("a" :> 5 @@ "b" :> 2) @@
         2 :> ("a" :> 6 @@ "b" :> 3) @@ 3 :> ("a" :> 3 @@ "b" :> 3) @@
         4 :> ("a" :> 4 @@ "b" :> 4) @@ 5 :> ("a" :> 5 @@ "b" :> 5) @@
         6 :> ("a" :> 6 @@ "b" :> 6))),
     expected |-> DFA(0..3, {3}, {"a", "b"}, 0,
        (0 :> ("a" :> 3 @@ "b" :> 1) @@ 1 :> ("a" :> 3 @@ "b" :> 2) @@
         2 :> ("a" :> 3) @@ 3 :> ("a" :> 3 @@ "b" :> 3)))],
    [dfa |-> DFA(0..5, {5}, {"a", "b"}, 0,
        (0 :> ("a" :> 1 @@ "b" :> 3) @@ 1 :> ("a" :> 1 @@ "b" :> 2) @@
         2 :> ("a" :> 2 @@ "b" :> 5) @@ 3 :> ("a" :> 3 @@ "b" :> 4) @@
         4 :> ("a" :> 4 @@ "b" :> 5) @@ 5 :> ("a" :> 5 @@ "b" :> 5))),
     expected |-> DFA(0..3, {3}, {"a", "b"}, 0,
        (0 :> ("a" :> 1 @@ "b" :> 1) @@ 1 :> ("a" :> 1 @@ "b" :> 2) @@
         2 :> ("a" :> 2 @@ "b" :> 3) @@ 3 :> ("a" :> 3 @@ "b" :> 3)))],
    [dfa |-> DFA(0..5, {0, 2, 4}, {"a", "b"}, 0,
        (0 :> ("a" :> 1 @@ "b" :> 3) @@ 1 :> ("a" :> 2 @@ "b" :> 3) @@
         2 :> ("a" :> 5 @@ "b" :> 2) @@ 3 :> ("a" :> 4 @@ "b" :> 1) @@
         4 :> ("a" :> 5 @@ "b" :> 4) @@ 5 :> ("a" :> 5 @@ "b" :> 5))),
     expected |-> DFA(0..2, {0, 2}, {"a", "b"}, 0,
        (0 :> ("a" :> 1 @@ "b" :> 1) @@ 1 :> ("a" :> 2 @@ "b" :> 1) @@
         2 :> ("b" :> 2)))],
    [dfa |-> DFA(0..6, {1, 3, 5, 6}, {"a", "b"}, 0,
        (0 :> ("a" :> 1 @@ "b" :> 3) @@ 1 :> ("a" :> 2 @@ "b" :> 4) @@
         2 :> ("a" :> 5 @@ "b" :> 5) @@ 3 :> ("a" :> 4 @@ "b" :> 2) @@
         4 :> ("a" :> 5 @@ "b" :> 5) @@ 5 :> ("a" :> 6 @@ "b" :> 5) @@
         6 :> ("a" :> 6 @@ "b" :> 6))),
     expected |-> DFA(0..3, {1, 3}, {"a", "b"}, 0,
        (0 :> ("a" :> 1 @@ "b" :> 1) @@ 1 :> ("a" :> 2 @@ "b" :> 2) @@
         2 :> ("a" :> 3 @@ "b" :> 3) @@ 3 :> ("a" :> 3 @@ "b" :> 3)))] >>

TestInputs == {TestCases[i].dfa : i \in 1..Len(TestCases)}

\* The quotient of the useful states of D by StatesEquivalent: the partial
\* DFA without useless states and without equivalent states that accepts
\* the language of D.  Its states are numbered in the order of the least
\* state of each class (backwards: in the opposite order); with allKeys a
\* state without transitions has an empty inner dictionary, otherwise no key.
Quotient(D, backwards, allKeys) ==
    LET U       == UsefulStates(D)
        rep(q)  == CHOOSE r \in U : /\ StatesEquivalent(D, r, q)
                                    /\ \A p \in U : StatesEquivalent(D, p, q) => r <= p
        reps    == {rep(q) : q \in U}
        k       == Cardinality(reps)
        up(r)   == Cardinality({x \in reps : x < r})
        id(q)   == IF backwards THEN k - 1 - up(rep(q)) ELSE up(rep(q))
        out(r)  == {a \in D.sigma : Step(D, r, a) \in U}
        keys    == IF allKeys THEN reps ELSE {r \in reps : out(r) # {}}
    IN  DFA(0..(k - 1), {id(q) : q \in D.finals \cap U}, D.sigma, id(D.start),
            [c \in {id(r) : r \in keys} |->
                LET r == CHOOSE x \in reps : id(x) = c
                IN  [a \in out(r) |-> id(Step(D, r, a))]])

\* The automata the minimization of D is compared with: the expected
\* automaton of the test of D and the quotients, when D accepts a string.
Expected(D) ==
    {TestCases[i].expected : i \in {j \in 1..Len(TestCases) : TestCases[j].dfa = D}}
    \cup (IF D.start \in UsefulStates(D)
          THEN {Quotient(D, b, k) : b \in BOOLEAN, k \in BOOLEAN} ELSE {})

---------------------------------------------------------------------------
(* The run of tests/test_dfa.py on one input: minimize, compare with the   *)
(* input, minimize again, compare with an expected automaton.              *)

\* No method of a DisjointSet or query of a DFA has been called.
NoCall == [op |-> "none", args |-> <<>>, before |-> DisjointSet, n |-> 0]

NotRun == Raised("not run", NoDFA)

NoResult == [b |-> FALSE, w |-> None]

Start(D, E, at) ==
    /\ dfa = D
    /\ other = E
    /\ pc = at
    /\ min = NotRun
    /\ min2 = NotRun
    /\ eq = NoResult
    /\ eqr = NoResult
    /\ iso = None
    /\ iso2 = None
    /\ disjoint = DisjointSet
    /\ unions = {}
    /\ call = NoCall
    /\ ret = None
    /\ parts = Partition(0, NoKey)
    /\ marks = {}
    /\ pending = <<>>

\* The input is an automaton of the tests or any automaton of at most
\* MaxStates states 0..n-1 and at most MaxTrans transitions over Symbols.
Init ==
    \/ \E D \in TestInputs : Start(D, NoDFA, "start")
    \/ \E n \in 1..MaxStates : \E S \in Domains(n, Symbols, MaxTrans) :
       \E f \in [S -> 0..(n - 1)] : \E K \in KeySets(n, S) :
       \E F \in SUBSET (0..(n - 1)) : \E s \in 0..(n - 1) :
          Start(DFA(0..(n - 1), F, Symbols, s, Nested(K, f)), NoDFA, "start")

\* dfa_min = dfa.minimize_valmari()
Minimize ==
    /\ pc = "start"
    /\ min' = minimize_valmari(dfa)
    /\ pc' = IF min'.raised = "" THEN "minimized" ELSE "raised"
    /\ UNCHANGED <<dfa, other, min2, eq, eqr, iso, iso2, disjoint, unions, call, ret, parts, marks, pending>>

\* dfa_min.equivalent_hopcroft_karp(dfa) and dfa.equivalent_hopcroft_karp(dfa_min)
Equivalent ==
    /\ pc = "minimized"
    /\ \E order \in SetOrders :
          /\ eq' = equivalent_hopcroft_karp(min.value, dfa, order)
          /\ eqr' = equivalent_hopcroft_karp(dfa, min.value, order)
    /\ pc' = "compared"
    /\ UNCHANGED <<dfa, other, min, min2, iso, iso2, disjoint, unions, call, ret, parts, marks, pending>>

\* dfa_min.minimize_valmari().isomorphic(dfa_min)
MinimizeAgain ==
    /\ pc = "compared"
    /\ min2' = minimize_valmari(min.value)
    /\ iso2' = IF min2'.raised = "" THEN isomorphic(min2'.value, min.value) ELSE None
    /\ pc' = "again"
    /\ UNCHANGED <<dfa, other, min, eq, eqr, iso, disjoint, unions, call, ret, parts, marks, pending>>

\* dfa_min.isomorphic(expected)
Isomorphic ==
    /\ pc = "again"
    /\ \E E \in Expected(dfa) :
          /\ other' = E
          /\ iso' = isomorphic(min.value, E)
    /\ pc' = "matched"
    /\ UNCHANGED <<dfa, min, min2, eq, eqr, iso2, disjoint, unions, call, ret, parts, marks, pending>>

Next == Minimize \/ Equivalent \/ MinimizeAgain \/ Isomorphic

Spec == Init /\ [][Next]_vars

---------------------------------------------------------------------------
(* The comparison of two automata: M.equivalent_hopcroft_karp(N), the      *)
(* call the other way round, and M.equivalent_hopcroft_karp(M).            *)

EqMaxStates == 2

EqMaxTrans == 2

\* The automata of at most EqMaxStates states 0..n-1 with at most EqMaxTrans
\* transitions, over every alphabet within Symbols.
EqInputs ==
    UNION {UNION {UNION {
        {DFA(0..(n - 1), F, A, s, Nested({x[1] : x \in S}, f)) :
            f \in [S -> 0..(n - 1)], F \in SUBSET (0..(n - 1)), s \in 0..(n - 1)} :
        S \in Domains(n, A, EqMaxTrans)} :
        A \in SUBSET Symbols} :
        n \in 1..EqMaxStates}

InitEq == \E M \in EqInputs : Start(M, NoDFA, "given")

\* dfa.equivalent_hopcroft_karp(other) and other.equivalent_hopcroft_karp(dfa)
Compare ==
    /\ pc = "given"
    /\ \E N \in EqInputs : \E order \in SetOrders :
          /\ other' = N
          /\ eq' = equivalent_hopcroft_karp(dfa, N, order)
          /\ eqr' = equivalent_hopcroft_karp(N, dfa, order)
    /\ pc' = "compared"
    /\ UNCHANGED <<dfa, min, min2, iso, iso2, disjoint, unions, call, ret, parts, marks, pending>>

\* dfa.equivalent_hopcroft_karp(dfa)
CompareSelf ==
    /\ pc = "given"
    /\ \E order \in SetOrders :
          /\ eq' = equivalent_hopcroft_karp(dfa, dfa, order)
          /\ eqr' = eq'
    /\ other' = dfa
    /\ pc' = "self"
    /\ UNCHANGED <<dfa, min, min2, iso, iso2, disjoint, unions, call, ret, parts, marks, pending>>

NextEq == Compare \/ CompareSelf

SpecEq == InitEq /\ [][NextEq]_vars

---------------------------------------------------------------------------
(* Properties of minimize_valmari, on the runs of Spec.                    *)

Equal == [b |-> TRUE, w |-> None]

\* minimize_valmari has returned the automaton min.value.
Minimized == pc \in {"minimized", "compared", "again", "matched"}

Compared == pc \in {"compared", "again", "matched"}

NumStates(D) == Cardinality(D.states)

\* C1: for every DFA D with the states 0..|Q|-1, D.minimize_valmari()
\* accepts the strings D accepts, and equivalent_hopcroft_karp between D and
\* its minimization returns (True, None).
C1_LanguagePreserved ==
    pc # "start" =>
        /\ min.raised = ""
        /\ SameLanguage(min.value, dfa)
        /\ Compared => eq = Equal /\ eqr = Equal

\* C1 on the inputs on which minimize_valmari returns: the result accepts
\* the language of D and both comparisons return (True, None).
C1_WhenReturned ==
    Minimized =>
        /\ SameLanguage(min.value, dfa)
        /\ Compared => eq = Equal /\ eqr = Equal

\* E accepts the language of D, all its states are reachable and productive
\* and no two of them are equivalent.
ReducedFor(E, D) ==
    /\ SameLanguage(E, D)
    /\ UsefulStates(E) = E.states
    /\ Reduced(E)

\* C2: for every DFA D and every partial DFA E that accepts the language of
\* D, has only reachable and productive states and no two equivalent states,
\* D.minimize_valmari().isomorphic(E) returns a mapping, not None.
C2_IsomorphicToReduced ==
    pc = "matched" /\ ReducedFor(other, dfa) => iso # None

\* C2 for the automata E in which a state has a key in delta only if it has
\* a transition, as in the expected automata of the tests.
C2_WithoutEmptyRows ==
    (/\ pc = "matched"
     /\ ReducedFor(other, dfa)
     /\ \A q \in DOMAIN other.delta : DOMAIN other.delta[q] # {})
    => iso # None

\* Every automaton the result is compared with is one C2 speaks about.
C2_ExpectedReduced == pc = "matched" => ReducedFor(other, dfa)

\* C3: no two distinct states of the automaton D.minimize_valmari() returns
\* are language-equivalent: some string is accepted from exactly one of them.
C3_NoEquivalentStates == Minimized => Reduced(min.value)

\* C3 happens: states of D that accept the same strings were merged and the
\* result has several states.
C3_Witness ==
    /\ pc = "minimized"
    /\ NumStates(min.value) >= 2
    /\ NumStates(min.value) < Cardinality(UsefulStates(dfa))

\* C4: the number of states of D.minimize_valmari() is at most the number
\* of states of D that are reachable from the start state and productive.
C4_AtMostUseful ==
    Minimized => NumStates(min.value) <= Cardinality(UsefulStates(dfa))

\* C4 amended: the number of states of D.minimize_valmari() is at most the
\* number of reachable and productive states of D when D has such a state;
\* when it has none (D accepts no string) the result has exactly one state,
\* its start state, which is not accepting and has no transition.
C4_AtMostUsefulOrOne ==
    Minimized =>
        IF UsefulStates(dfa) # {}
        THEN NumStates(min.value) <= Cardinality(UsefulStates(dfa))
        ELSE /\ min.value.states = {min.value.start}
             /\ min.value.finals = {}
             /\ DOMAIN min.value.delta = {}

\* C4 amended happens: D has several states, none of them reachable and
\* productive, and the result has one state.
C4_Witness ==
    /\ pc = "minimized"
    /\ NumStates(dfa) >= 2
    /\ UsefulStates(dfa) = {}
    /\ NumStates(min.value) = 1

\* C5: for every DFA D, with M = D.minimize_valmari(),
\* M.minimize_valmari().isomorphic(M) returns a mapping, not None.
C5_Idempotent ==
    pc # "start" =>
        /\ min.raised = ""
        /\ pc \in {"again", "matched"} => min2.raised = "" /\ iso2 # None

\* C5 on the inputs on which D.minimize_valmari() returns M.
C5_WhenReturned ==
    pc \in {"again", "matched"} => min2.raised = "" /\ iso2 # None

---------------------------------------------------------------------------
(* Properties of equivalent_hopcroft_karp, on the runs of SpecEq.  eq is   *)
(* the result of dfa.equivalent_hopcroft_karp(other), eqr of the call the  *)
(* other way round.                                                        *)

Witness(r) == r.w[1]

\* The string w is accepted by exactly one of M and N.
Distinguishes(w, M, N) == Accepts(M, w) # Accepts(N, w)

\* C6: M.equivalent_hopcroft_karp(N) returns (True, None) if and only if M
\* and N accept the same language, and a pair (False, w) otherwise, also
\* when the alphabets of M and N differ.
C6_DecidesLanguage ==
    pc = "compared" =>
        IF SameLanguage(dfa, other) THEN eq = Equal
        ELSE ~eq.b /\ eq.w # None

\* C6 for two automata with the same alphabet.
C6_SameAlphabet ==
    pc = "compared" /\ dfa.sigma = other.sigma =>
        IF SameLanguage(dfa, other) THEN eq = Equal
        ELSE ~eq.b /\ eq.w # None

\* C7: whenever M.equivalent_hopcroft_karp(N) returns (False, w), the length
\* of w is the length of a shortest string over the symbols of both automata
\* that is accepted by exactly one of M and N.
C7_ShortestWitness ==
    pc = "compared" /\ ~eq.b => Len(Witness(eq)) = ShortestDifference(dfa, other)

\* C7 for two automata with the same alphabet.
C7_SameAlphabet ==
    pc = "compared" /\ ~eq.b /\ dfa.sigma = other.sigma =>
        Len(Witness(eq)) = ShortestDifference(dfa, other)

\* C8: whenever M.equivalent_hopcroft_karp(N) returns (False, w), w is
\* accepted by exactly one of M and N, an undefined transition rejecting;
\* and (False, []) is returned when exactly one start state is accepting.
C8_WitnessDistinguishes ==
    pc \in {"compared", "self"} =>
        /\ ~eq.b => eq.w # None /\ Distinguishes(Witness(eq), dfa, other)
        /\ ~eqr.b => eqr.w # None /\ Distinguishes(Witness(eqr), other, dfa)
        /\ (dfa.start \in dfa.finals) # (other.start \in other.finals)
              => eq = [b |-> FALSE, w |-> Some(<<>>)]

\* C8 happens: a witness of two symbols is returned, after pairs of states
\* that agree were merged.
C8_Witness ==
    /\ pc = "compared"
    /\ ~eq.b
    /\ Len(Witness(eq)) >= 2

\* C9: D1.equivalent_hopcroft_karp(D2)[0] == D2.equivalent_hopcroft_karp(D1)[0]
\* for any two DFAs D1 and D2.
C9_Symmetric == pc = "compared" => eq.b = eqr.b

\* C9 for two automata with the same alphabet.
C9_SameAlphabet == pc = "compared" /\ dfa.sigma = other.sigma => eq.b = eqr.b

\* C10: D.equivalent_hopcroft_karp(D) returns (True, None) for every DFA D,
\* though both copies have the same state ids.
C10_Reflexive == pc = "self" => eq = Equal

\* C10 happens: D is compared with itself, has two states with transitions
\* between them and an accepting state, so that pairs of equal ids of the
\* two copies and of their dummies are merged.
C10_Witness ==
    /\ pc = "self"
    /\ other = dfa
    /\ NumStates(dfa) = 2
    /\ Edges(dfa) = {<<0, 1>>, <<1, 0>>}
    /\ dfa.finals # {}
    /\ eq = Equal

---------------------------------------------------------------------------
(* M.isomorphic(N), M.equivalent_hopcroft_karp(N) and M.minimize_valmari() *)
(* on automata in which a state without transitions has no key in delta or *)
(* an empty inner dictionary.                                              *)

IsoMaxStates == 2

IsoMaxTrans == 2

\* A method in which the compaction of remove_unreachable is
\* done on the automaton: delta keeps the transitions of reachable states.
CompactedInPlace(D) ==
    [D EXCEPT !.delta = [q \in DOMAIN D.delta \cap ReachableStates(D) |-> D.delta[q]]]

\* A DFA after a call of minimize_valmari, equivalent_hopcroft_karp or
\* isomorphic on it or with it as the argument.  The three methods read
\* states, finals, sigma, start and delta and assign to none of them nor to
\* an entry of delta; what they write are the lists tails, labels, heads,
\* adjacent, offset that ValmariState.__init__ builds from dfa.iterate(), the
\* lists of the Partitions, the dictionaries of the DisjointSet, the queue,
\* worklist and bidict of the call and the delta and sigma of the result.
Untouched(D) == D

\* The alphabets {}, {a}, {a, b}: the first symbols of Alphabet.
IsoAlphabets == {{Alphabet[i] : i \in 1..k} : k \in 0..Len(Alphabet)}

\* The automata of at most IsoMaxStates states 0..n-1 with at most
\* IsoMaxTrans transitions over an alphabet of IsoAlphabets; a state without
\* transitions has no key in delta or an empty inner dictionary.
IsoInputs ==
    UNION {UNION {UNION {UNION {
        {DFA(0..(n - 1), F, A, s, Nested(K, f)) :
            f \in [S -> 0..(n - 1)], F \in SUBSET (0..(n - 1)), s \in 0..(n - 1)} :
        K \in {{x[1] : x \in S} \cup E : E \in SUBSET (0..(n - 1))}} :
        S \in Domains(n, A, IsoMaxTrans)} :
        A \in IsoAlphabets} :
        n \in 1..IsoMaxStates}

\* The call of a method: its name and its arguments as they are passed, the
\* receiver first where it is recorded.
Asked(op, args) == [op |-> op, args |-> args, before |-> DisjointSet, n |-> 1]

InitIso == \E M \in IsoInputs : Start(M, NoDFA, "given")

\* dfa.isomorphic(other) and dfa.equivalent_hopcroft_karp(other)
Match ==
    /\ pc = "given"
    /\ \E N \in IsoInputs : \E order \in SetOrders :
          /\ iso' = isomorphic(dfa, N)
          /\ eq' = equivalent_hopcroft_karp(dfa, N, order)
          /\ other' = Untouched(N)
          /\ call' = Asked("isomorphic", <<dfa, N>>)
    /\ dfa' = Untouched(dfa)
    /\ pc' = "paired"
    /\ UNCHANGED <<min, min2, eqr, iso2, disjoint, unions, ret, parts, marks, pending>>

\* dfa.minimize_valmari()
Shrink ==
    /\ pc = "given"
    /\ min' = minimize_valmari(dfa)
    /\ dfa' = Untouched(dfa)
    /\ call' = Asked("minimize_valmari", <<dfa>>)
    /\ pc' = "shrunk"
    /\ UNCHANGED <<other, min2, eq, eqr, iso, iso2, disjoint, unions, ret, parts, marks, pending>>

NextIso == Match \/ Shrink

SpecIso == InitIso /\ [][NextIso]_vars

---------------------------------------------------------------------------
(* Properties of isomorphic, on the runs of SpecIso.  iso is the result of *)
(* dfa.isomorphic(other), eq of dfa.equivalent_hopcroft_karp(other).       *)

\* phi is a bijection from the states of M reachable from its start onto
\* those of N that keeps the start, the accepting states and the transitions.
IsIsomorphism(phi, M, N) ==
    LET RM == ReachableStates(M)
        RN == ReachableStates(N)
        A  == M.sigma \cup N.sigma \cup Labels(M) \cup Labels(N)
    IN  /\ DOMAIN phi = RM
        /\ {phi[q] : q \in RM} = RN
        /\ \A p, q \in RM : phi[p] = phi[q] => p = q
        /\ phi[M.start] = N.start
        /\ \A q \in RM : (q \in M.finals) <=> (phi[q] \in N.finals)
        /\ \A q \in RM : \A a \in A :
              IF Step(M, q, a) = Dead THEN Step(N, phi[q], a) = Dead
              ELSE /\ Step(N, phi[q], a) # Dead
                   /\ phi[Step(M, q, a)] = Step(N, phi[q], a)

IsomorphismExists(M, N) ==
    \E phi \in [ReachableStates(M) -> ReachableStates(N)] : IsIsomorphism(phi, M, N)

EmptyRows(D) == {q \in DOMAIN D.delta : DOMAIN D.delta[q] = {}}

\* C11: whenever M.isomorphic(N) returns a mapping phi, phi is a bijection
\* from the states of M reachable from M.start onto the states of N reachable
\* from N.start with phi(M.start) = N.start, q accepting iff phi(q) accepting,
\* and delta_M[q][a] = q' iff delta_N[phi(q)][a] = phi(q').
C11_MappingIsIsomorphism ==
    pc = "paired" /\ iso # None => IsIsomorphism(iso[1], dfa, other)

\* C11 happens: a mapping of two states that swaps the state ids is returned
\* for two automata with transitions.
C11_Witness ==
    /\ pc = "paired"
    /\ iso # None
    /\ DOMAIN iso[1] = {0, 1}
    /\ iso[1][0] = 1
    /\ Cardinality(Edges(dfa)) = 2

\* C12: M.isomorphic(N) returns a mapping whenever a bijection between the
\* reachable states that keeps start, accepting states and transitions
\* exists, whether a state without transitions has no key in delta or an
\* empty inner dictionary.
C12_NoneOnlyIfNotIsomorphic ==
    pc = "paired" /\ IsomorphismExists(dfa, other) => iso # None

\* C12 for two automata without an empty inner dictionary.
C12_WithoutEmptyRows ==
    (/\ pc = "paired"
     /\ IsomorphismExists(dfa, other)
     /\ EmptyRows(dfa) = {}
     /\ EmptyRows(other) = {})
    => iso # None

\* C13: if D1.isomorphic(D2) is not None then
\* D1.equivalent_hopcroft_karp(D2) returns (True, None).
C13_IsomorphicImpliesEquivalent ==
    pc = "paired" /\ iso # None => eq = Equal

\* C13 happens: a mapping is returned for two different automata with
\* different alphabets that accept some string of a symbol, and they are
\* compared.
C13_Witness ==
    /\ pc = "paired"
    /\ iso # None
    /\ dfa.sigma # other.sigma
    /\ Edges(dfa) # {}
    /\ dfa.start \notin dfa.finals
    /\ dfa.finals \cap ReachableStates(dfa) # {}
    /\ eq = Equal

---------------------------------------------------------------------------
(* A DisjointSet under make_set, find and union (common/disjoint.py).      *)
(* disjoint is the set, unions the pairs passed to union so far, call the  *)
(* last call with the set before it, ret what the call returned.           *)

MaxElems == 4

MaxOps == 4

Elements == 0..(MaxElems - 1)

Called(op, args) ==
    [op |-> op, args |-> args, before |-> disjoint, n |-> call.n + 1]

InitDisjoint == Start(NoDFA, NoDFA, "sets")

\* disjoint.make_set(i)
MakeSet ==
    /\ pc = "sets"
    /\ call.n < MaxOps
    /\ \E i \in Elements :
          /\ disjoint' = make_set(disjoint, i)
          /\ call' = Called("make_set", <<i>>)
    /\ ret' = None
    /\ UNCHANGED <<dfa, other, pc, min, min2, eq, eqr, iso, iso2, unions, parts, marks, pending>>

\* disjoint.find(i)
Find ==
    /\ pc = "sets"
    /\ call.n < MaxOps
    /\ \E i \in Elements :
          /\ disjoint' = find(disjoint, i).ds
          /\ ret' = Some(find(disjoint, i).root)
          /\ call' = Called("find", <<i>>)
    /\ UNCHANGED <<dfa, other, pc, min, min2, eq, eqr, iso, iso2, unions, parts, marks, pending>>

\* disjoint.union(i, j)
Union ==
    /\ pc = "sets"
    /\ call.n < MaxOps
    /\ \E i, j \in Elements :
          /\ disjoint' = union(disjoint, i, j).ds
          /\ ret' = Some(union(disjoint, i, j).root)
          /\ unions' = unions \cup {<<i, j>>}
          /\ call' = Called("union", <<i, j>>)
    /\ UNCHANGED <<dfa, other, pc, min, min2, eq, eqr, iso, iso2, parts, marks, pending>>

NextDisjoint == MakeSet \/ Find \/ Union

SpecDisjoint == InitDisjoint /\ [][NextDisjoint]_vars

---------------------------------------------------------------------------
(* Properties of DisjointSet, on the runs of SpecDisjoint.                 *)

\* x and y are related by the reflexive, symmetric, transitive closure of
\* the pairs U.
Related(U, x, y) ==
    y \in Closure(U \cup {<<p[2], p[1]>> : p \in U}, {x}, TRUE)

\* ds.find(x) == ds.find(y), the second call on the set the first one left.
SameFind(ds, x, y) ==
    LET fx == find(ds, x)
    IN  fx.root = find(fx.ds, y).root

\* C14: after any sequence of make_set, find and union, find(x) == find(y)
\* if and only if x and y are related by the reflexive, symmetric, transitive
\* closure of the pairs passed to union so far.
C14_FindIsClosure ==
    pc = "sets" =>
        \A x, y \in Elements : SameFind(disjoint, x, y) <=> Related(unions, x, y)

\* C14 happens: after three unions that merged four elements a find has
\* compressed a path.
C14_Witness ==
    /\ pc = "sets"
    /\ Cardinality(unions) = 3
    /\ \A x \in Elements : Related(unions, 0, x)
    /\ call.op = "find"
    /\ disjoint # call.before

\* The root of the class of element x in the set ds, without compression.
RootIn(ds, x) == RootOf(make_set(ds, x).parent, x)

RankIn(ds, x) == make_set(ds, x).rank[RootIn(ds, x)]

---------------------------------------------------------------------------
(* DFA.product (dfa.py).  f is a function on pairs of Booleans, a product  *)
(* state a pair of options: Some(q), or None for the missing transition.   *)

\* self.delta[q1].get(symbol) if q1 in self.delta else None
GetOrNone(D, q, symbol) ==
    IF q \in DOMAIN D.delta /\ symbol \in DOMAIN D.delta[q]
    THEN Some(D.delta[q][symbol]) ELSE None

\* for symbol in sigma: ...  for the pair (self.start, dfa.start), the only
\* one the worklist ever holds: the pair (q2, r2) is that pair again and
\* delta[0][symbol] = 0 is assigned, or it is not in states and, numbered,
\* is handed to worklist.add, which a list does not have.
RECURSIVE ProductLoop(_, _, _, _)
ProductLoop(M, N, syms, delta) ==
    IF syms = <<>> THEN Returned(delta)
    ELSE LET symbol == Head(syms)
             q2 == GetOrNone(M, M.start, symbol)
             r2 == GetOrNone(N, N.start, symbol)
             row == IF 0 \in DOMAIN delta THEN delta[0] ELSE EmptyList
         IN  IF <<q2, r2>> # <<Some(M.start), Some(N.start)>>
             THEN Raised("AttributeError", delta)
             ELSE ProductLoop(M, N, Tail(syms), (0 :> ((symbol :> 0) @@ row)))

product(M, N, f, order) ==
    LET sigma == M.sigma \cup N.sigma
        loop  == ProductLoop(M, N, InOrder(sigma, order), EmptyList)
    IN  IF loop.raised # "" THEN Raised(loop.raised, NoDFA)
        ELSE Returned(DFA({0},
                          IF f[<<M.start \in M.finals, N.start \in N.finals>>]
                          THEN {0} ELSE {},
                          sigma, 0, loop.value))

---------------------------------------------------------------------------
(* M.product(N, f) on two automata and a Boolean function.                 *)

ProdMaxStates == 2

ProdMaxTrans == 1

ProdInputs ==
    UNION {UNION {UNION {
        {DFA(0..(n - 1), F, A, s, Nested({x[1] : x \in S}, g)) :
            g \in [S -> 0..(n - 1)], F \in SUBSET (0..(n - 1)), s \in 0..(n - 1)} :
        S \in Domains(n, A, ProdMaxTrans)} :
        A \in IsoAlphabets} :
        n \in 1..ProdMaxStates}

BoolFuns == [BOOLEAN \X BOOLEAN -> BOOLEAN]

InitProduct == \E M \in ProdInputs : Start(M, NoDFA, "factors")

\* dfa.product(other, f)
Product ==
    /\ pc = "factors"
    /\ \E N \in ProdInputs : \E f \in BoolFuns : \E order \in SetOrders :
          /\ other' = N
          /\ call' = [op |-> "product", args |-> <<f>>, before |-> DisjointSet, n |-> 1]
          /\ ret' = product(dfa, N, f, order)
    /\ pc' = "multiplied"
    /\ UNCHANGED <<dfa, min, min2, eq, eqr, iso, iso2, disjoint, unions, parts, marks, pending>>

NextProduct == Product

SpecProduct == InitProduct /\ [][NextProduct]_vars

\* The strings over Symbols of at most two symbols.
Words == {<<>>} \cup {<<a>> : a \in Symbols} \cup {<<a, b>> : a, b \in Symbols}

\* C15: M.product(N, f) returns a DFA that is complete over the union of the
\* alphabets, in which the state of the pair (q, r) is accepting iff
\* f(q in F_M, r in F_N), so that it accepts a string w over the union iff
\* f(M accepts w, N accepts w); undefined transitions lead to sink states,
\* not to an error.
C15_ProductComplete ==
    pc = "multiplied" =>
        /\ ret.raised = ""
        /\ \A q \in ret.value.states : \A a \in dfa.sigma \cup other.sigma :
              Step(ret.value, q, a) \in ret.value.states
        /\ \A w \in Words :
              (\A i \in DOMAIN w : w[i] \in dfa.sigma \cup other.sigma) =>
                 (Accepts(ret.value, w) <=>
                     call.args[1][<<Accepts(dfa, w), Accepts(other, w)>>])

\* C15 on the inputs on which product returns.
C15_WhenReturned ==
    pc = "multiplied" /\ ret.raised = "" =>
        /\ \A q \in ret.value.states : \A a \in dfa.sigma \cup other.sigma :
              Step(ret.value, q, a) \in ret.value.states
        /\ \A w \in Words :
              (\A i \in DOMAIN w : w[i] \in dfa.sigma \cup other.sigma) =>
                 (Accepts(ret.value, w) <=>
                     call.args[1][<<Accepts(dfa, w), Accepts(other, w)>>])

\* product returns exactly when each symbol of the union leads from the pair
\* of start states to that pair.
C15_ReturnsOnlyOnLoops ==
    pc = "multiplied" =>
        (ret.raised = "" <=>
            \A a \in dfa.sigma \cup other.sigma :
                Step(dfa, dfa.start, a) = dfa.start /\ Step(other, other.start, a) = other.start)

---------------------------------------------------------------------------
(* DFA.transition, DFA.reachable, DFA.productive (dfa.py).  The iterables  *)
(* states and symbols are sequences.                                       *)

Range(s) == {s[i] : i \in DOMAIN s}

\* zip(states, symbols)
Zip(states, symbols) ==
    LET n == IF Len(states) <= Len(symbols) THEN Len(states) ELSE Len(symbols)
    IN  [i \in 1..n |-> <<states[i], symbols[i]>>]

\* set(self.delta[q][a] for (q, a) in zip(states, symbols)
\*     if q in self.delta and a in self.deltq[a])
\* The filter reads the attribute deltq, which no DFA has, for the first pair
\* whose q is a key of delta; a pair whose q is no key is filtered out.
RECURSIVE TransitionLoop(_, _, _)
TransitionLoop(D, pairs, found) ==
    IF pairs = <<>> THEN Returned(found)
    ELSE IF Head(pairs)[1] \in DOMAIN D.delta
         THEN Raised("AttributeError", found)
         ELSE TransitionLoop(D, Tail(pairs), found)

transition(D, states, symbols) == TransitionLoop(D, Zip(states, symbols), {})

\* while worklist: state = worklist.pop(); if state not in reached: ...
RECURSIVE ReachableLoop(_, _, _, _)
ReachableLoop(D, worklist, reached, symbols) ==
    IF worklist = <<>> THEN Returned(reached)
    ELSE LET state == worklist[Len(worklist)]
             rest  == SubSeq(worklist, 1, Len(worklist) - 1)
             targets == transition(D, <<state>>, symbols)
         IN  IF state \in reached THEN ReachableLoop(D, rest, reached, symbols)
             ELSE IF targets.raised # "" THEN Raised(targets.raised, reached)
             ELSE ReachableLoop(D, rest \o IntSeq(targets.value \ reached),
                                reached \cup {state}, symbols)

reachable(D, states, symbols) == ReachableLoop(D, states, {}, symbols)

\* for (q, a, r) in self.iterate(): ... inverse[r][a] = q
\* inverse is a function on the pairs (r, a); a later transition into r on a
\* replaces the earlier one.
RECURSIVE InverseOf(_, _)
InverseOf(trans, inverse) ==
    IF trans = <<>> THEN inverse
    ELSE LET q == Head(trans)[1]
             a == Head(trans)[2]
             r == Head(trans)[3]
         IN  InverseOf(Tail(trans), (<<r, a>> :> q) @@ inverse)

\* while worklist: state = worklist.pop(); if state not in reached: ...
RECURSIVE ProductiveLoop(_, _, _, _)
ProductiveLoop(inverse, worklist, reached, symbols) ==
    IF worklist = <<>> THEN reached
    ELSE LET state == worklist[Len(worklist)]
             rest  == SubSeq(worklist, 1, Len(worklist) - 1)
             targets == {inverse[<<state, a>>] :
                            a \in {b \in Range(symbols) : <<state, b>> \in DOMAIN inverse}}
         IN  IF state \in reached THEN ProductiveLoop(inverse, rest, reached, symbols)
             ELSE ProductiveLoop(inverse, rest \o IntSeq(targets \ reached),
                                 reached \cup {state}, symbols)

\* keys is the order in which the dictionary delta yields its keys.
productive(D, states, symbols, keys) ==
    Returned(ProductiveLoop(InverseOf(IterateOuter(D.delta, keys), EmptyList),
                            states, {}, symbols))

---------------------------------------------------------------------------
(* The three queries on an automaton over Symbols.                         *)

QueryMaxStates == 3

QueryMaxTrans == 2

MaxArgs == 2

QueryInputs ==
    UNION {UNION {UNION {
        {DFA(0..(n - 1), F, Symbols, 0, Nested(K, g)) :
            g \in [S -> 0..(n - 1)], F \in {{}, {0}}} :
        K \in KeySets(n, S)} :
        S \in Domains(n, Symbols, QueryMaxTrans)} :
        n \in 1..QueryMaxStates}

\* The sequences over S of at most MaxArgs elements.
Lists(S) == UNION {[1..k -> S] : k \in 0..MaxArgs}

\* The orders in which a dictionary with the keys K can yield them.
KeyOrders(K) ==
    {s \in [1..Cardinality(K) -> K] : \A i, j \in DOMAIN s : s[i] = s[j] => i = j}

InitQuery == \E D \in QueryInputs : Start(D, NoDFA, "built")

\* dfa.transition(states, symbols)
Transition ==
    /\ pc = "built"
    /\ \E states \in Lists(dfa.states) : \E symbols \in Lists(Symbols) :
          /\ call' = Asked("transition", <<states, symbols>>)
          /\ ret' = transition(dfa, states, symbols)
    /\ pc' = "asked"
    /\ UNCHANGED <<dfa, other, min, min2, eq, eqr, iso, iso2, disjoint, unions, parts, marks, pending>>

\* dfa.reachable(states, symbols)
Reachable ==
    /\ pc = "built"
    /\ \E states \in Lists(dfa.states) : \E symbols \in Lists(Symbols) :
          /\ call' = Asked("reachable", <<states, symbols>>)
          /\ ret' = reachable(dfa, states, symbols)
    /\ pc' = "asked"
    /\ UNCHANGED <<dfa, other, min, min2, eq, eqr, iso, iso2, disjoint, unions, parts, marks, pending>>

\* dfa.productive(states, symbols)
Productive ==
    /\ pc = "built"
    /\ \E states \in Lists(dfa.states) : \E symbols \in Lists(Symbols) :
       \E keys \in KeyOrders(DOMAIN dfa.delta) :
          /\ call' = Asked("productive", <<states, symbols>>)
          /\ ret' = productive(dfa, states, symbols, keys)
    /\ pc' = "asked"
    /\ UNCHANGED <<dfa, other, min, min2, eq, eqr, iso, iso2, disjoint, unions, parts, marks, pending>>

NextQuery == Transition \/ Reachable \/ Productive

SpecQuery == InitQuery /\ [][NextQuery]_vars

\* The edges of D whose label is in A.
EdgesOn(D, A) ==
    UNION {{<<q, D.delta[q][a]>> : a \in DOMAIN D.delta[q] \cap A} : q \in DOMAIN D.delta}

\* C16: transition(S, A) returns exactly { delta[q][a] : q in S, a in A,
\* delta[q][a] defined }, and reachable(S, A) returns exactly the states
\* reachable from a state of S by zero or more transitions with labels in A.
C16_ForwardQueriesExact ==
    LET S == Range(call.args[1])
        A == Range(call.args[2])
    IN  /\ pc = "asked" /\ call.op = "transition" =>
              ret = Returned({e[2] : e \in {x \in EdgesOn(dfa, A) : x[1] \in S}})
        /\ pc = "asked" /\ call.op = "reachable" =>
              ret = Returned(Closure(EdgesOn(dfa, A), S, TRUE))

\* transition returns only the empty set, and only when no state paired with
\* a symbol has a key in delta; reachable returns only the states given, and
\* only when no symbol is given or none of those states has a key.
C16_WhatTheyReturn ==
    LET states  == call.args[1]
        symbols == call.args[2]
        zipped  == {states[i] : i \in DOMAIN states \cap DOMAIN symbols}
    IN  /\ pc = "asked" /\ call.op = "transition" =>
              IF zipped \cap DOMAIN dfa.delta = {}
              THEN ret = Returned({}) ELSE ret.raised = "AttributeError"
        /\ pc = "asked" /\ call.op = "reachable" =>
              IF symbols = <<>> \/ Range(states) \cap DOMAIN dfa.delta = {}
              THEN ret = Returned(Range(states)) ELSE ret.raised = "AttributeError"

\* C17: productive(S, A) returns exactly the states that can reach a state of
\* S by zero or more transitions with labels in A, every one of several
\* predecessors that enter a state on the same symbol included.
C17_BackwardQueryExact ==
    pc = "asked" /\ call.op = "productive" =>
        ret = Returned(Closure(EdgesOn(dfa, Range(call.args[2])), Range(call.args[1]), FALSE))

\* productive returns states that can reach a state of S, the states of S
\* among them.
C17_SoundOnly ==
    pc = "asked" /\ call.op = "productive" =>
        /\ ret.raised = ""
        /\ Range(call.args[1]) \subseteq ret.value
        /\ ret.value \subseteq
              Closure(EdgesOn(dfa, Range(call.args[2])), Range(call.args[1]), FALSE)

---------------------------------------------------------------------------
(* Errors, under SpecIso.                                                  *)

\* C18: on every well-formed DFA, states without a delta key, states with an
\* empty inner mapping and an empty alphabet included, minimize_valmari and
\* equivalent_hopcroft_karp return a result and never end in an error.
C18_NeverRaises ==
    /\ pc = "shrunk" => min.raised = ""
    /\ pc = "paired" => eq # NoResult

\* minimize_valmari raises exactly when delta has keys and no transition,
\* and then ValueError; equivalent_hopcroft_karp returns a pair.
C18_RaisesWithoutTransitions ==
    /\ pc = "shrunk" =>
          /\ min.raised \in {"", "ValueError"}
          /\ min.raised = "ValueError" <=> (DOMAIN dfa.delta # {} /\ Edges(dfa) = {})
    /\ pc = "paired" => eq # NoResult

---------------------------------------------------------------------------
(* Partition(count, key), mark and split.  parts is the Partition, marks   *)
(* the elements that mark was called with since the last split.            *)

MaxCount == 4

\* The value of the call self.split(): the method ends without a return
\* statement.
split_returns(P) == None

\* The keys: none, or a function of the elements into Symbols (the labels
\* that minimize_valmari partitions the transitions by).
Keys(count) == {NoKey} \cup {KeyOf(f) : f \in [0..(count - 1) -> Symbols]}

\* The call of a method of the Partition: its name, its argument, the
\* Partition and the marked elements before it.
Applied(op, args) == [op |-> op, args |-> args, before |-> parts, n |-> marks]

InitPartition ==
    /\ dfa = NoDFA /\ other = NoDFA /\ pc = "partition"
    /\ min = NotRun /\ min2 = NotRun /\ eq = NoResult /\ eqr = NoResult
    /\ iso = None /\ iso2 = None /\ disjoint = DisjointSet /\ unions = {}
    /\ call = NoCall /\ ret = None /\ marks = {} /\ pending = <<>>
    /\ \E count \in 0..MaxCount : \E key \in Keys(count) :
          parts = Partition(count, key)

\* parts.mark(element)
Mark ==
    /\ pc \in {"partition", "refining"}
    /\ \E element \in DOMAIN parts.elements :
          /\ parts' = mark(parts, element)
          /\ marks' = marks \cup {element}
          /\ call' = Applied("mark", <<element>>)
    /\ ret' = None
    /\ pc' = "refining"
    /\ UNCHANGED <<dfa, other, min, min2, eq, eqr, iso, iso2, disjoint, unions, pending>>

\* parts.split()
Split ==
    /\ pc \in {"partition", "refining"}
    /\ parts' = split(parts)
    /\ marks' = {}
    /\ call' = Applied("split", <<>>)
    /\ ret' = split_returns(parts)
    /\ pc' = "refining"
    /\ UNCHANGED <<dfa, other, min, min2, eq, eqr, iso, iso2, disjoint, unions, pending>>

NextPartition == Mark \/ Split

SpecPartition == InitPartition /\ [][NextPartition]_vars

\* C21: split() returns the number of new equivalence classes, the amount by
\* which size grew during the call.
C21_ReturnsGrowth ==
    call.op = "split" => ret = Some(parts.size - call.before.size)

\* split() returns None, whatever it did.
C21_ReturnsNone ==
    call.op = "split" => ret = None

---------------------------------------------------------------------------
(* The invariants of the Partition, on the runs of SpecPartition.          *)

Count(P) == Cardinality(DOMAIN P.elements)

\* The elements at the positions lo..hi-1 of P.elements.
Slice(P, lo, hi) == {P.elements[i] : i \in lo..(hi - 1)}

\* elements is a permutation of [0, count) and location is its inverse.
Permuted(P) ==
    /\ \A i \in DOMAIN P.elements : P.elements[i] \in 0..(Count(P) - 1)
    /\ \A i \in DOMAIN P.elements : P.location[P.elements[i]] = i
    /\ \A e \in 0..(Count(P) - 1) : P.elements[P.location[e]] = e

\* Every class c < size is the non-empty slice elements[first[c]..past[c])
\* and holds exactly the e with setof[e] = c.
Sliced(P) ==
    \A c \in 0..(P.size - 1) :
        /\ 0 <= P.first[c] /\ P.first[c] < P.past[c] /\ P.past[c] <= Count(P)
        /\ Slice(P, P.first[c], P.past[c]) = {e \in 0..(Count(P) - 1) : P.setof[e] = c}

\* marked[c] counts the marked elements M of c, which are the first of its
\* slice.
MarkedFirst(P, M) ==
    \A c \in 0..(P.size - 1) :
        /\ 0 <= P.marked[c] /\ P.marked[c] <= P.past[c] - P.first[c]
        /\ Slice(P, P.first[c], P.first[c] + P.marked[c]) = {e \in M : P.setof[e] = c}

\* touched[0..num_touched) lists each class with marked[c] > 0 once and no
\* other class.
TouchedListed(P) ==
    /\ 0 <= P.num_touched /\ P.num_touched <= P.size
    /\ \A i, j \in 0..(P.num_touched - 1) : P.touched[i] = P.touched[j] => i = j
    /\ {P.touched[i] : i \in 0..(P.num_touched - 1)} = {c \in 0..(P.size - 1) : P.marked[c] > 0}

\* C22: after construction and after any sequence of mark(e), 0 <= e < count,
\* and split(): elements is a permutation of [0, count) with inverse location,
\* every class is its non-empty slice, 1 <= size <= count, the marked
\* elements of a class are the first marked[c] of its slice, and touched
\* lists exactly the classes with marked elements, once each.
C22_PartitionInvariants ==
    /\ Permuted(parts)
    /\ Sliced(parts)
    /\ 1 <= parts.size /\ parts.size <= Count(parts)
    /\ MarkedFirst(parts, marks)
    /\ TouchedListed(parts)

\* C22 with the size of the Partition of no element: size = 0 if count = 0,
\* and 1 <= size <= count otherwise.
C22_WithEmptyPartition ==
    /\ Permuted(parts)
    /\ Sliced(parts)
    /\ IF Count(parts) = 0 THEN parts.size = 0
       ELSE 1 <= parts.size /\ parts.size <= Count(parts)
    /\ MarkedFirst(parts, marks)
    /\ TouchedListed(parts)

\* Two classes have marked elements, one of them wholly marked, after an
\* earlier split.
C22_Witness ==
    /\ parts.size >= 2
    /\ parts.num_touched = 2
    /\ \E c \in 0..(parts.size - 1) : parts.marked[c] = parts.past[c] - parts.first[c]
    /\ \E c \in 0..(parts.size - 1) :
          0 < parts.marked[c] /\ parts.marked[c] < parts.past[c] - parts.first[c]
    /\ \E e \in DOMAIN parts.location : parts.location[e] # e

---------------------------------------------------------------------------
(* split(), on the runs of SpecPartition: call.before is the Partition and *)
(* call.n the set of marked elements when split was called.                *)

ClassSet(P, c) == Slice(P, P.first[c], P.past[c])

\* The marked elements of class c of P, M being the marked elements.
MarkedOf(P, M, c) == {e \in M : P.setof[e] = c}

\* The touched classes of P that have an unmarked element, which split
\* divides.
Divided(P) ==
    {c \in {P.touched[i] : i \in 0..(P.num_touched - 1)} :
        P.marked[c] < P.past[c] - P.first[c]}

\* The id of the class that split makes of the divided class c: the size
\* when c is taken from touched, whose later entries are taken before it.
NewId(P, c) ==
    P.size + Cardinality({i \in 0..(P.num_touched - 1) :
                             /\ P.touched[i] \in Divided(P)
                             /\ \E j \in 0..(i - 1) : P.touched[j] = c})

\* C23: split() drains touched; a touched class whose elements are all
\* marked is left as it is; of any other touched class c exactly one new
\* class is made, with the size at that moment as its id, of the marked
\* elements when marked[c] <= the number of unmarked elements and of the
\* unmarked elements otherwise, so that it is never larger than what remains
\* in c; setof is rewritten for the elements of new classes only; afterwards
\* num_touched = 0 and marked[c] = 0 for every class.
C23_SplitsSmallerHalf ==
    call.op = "split" =>
        LET P == call.before
            M == call.n
            all == 0..(Count(P) - 1)
        IN  /\ parts.num_touched = 0
            /\ \A c \in 0..(parts.size - 1) : parts.marked[c] = 0
            /\ parts.size = P.size + Cardinality(Divided(P))
            /\ \A c \in 0..(P.size - 1) : c \notin Divided(P) =>
                   ClassSet(parts, c) = ClassSet(P, c)
            /\ \A c \in Divided(P) :
                   LET new  == ClassSet(parts, NewId(P, c))
                       rest == ClassSet(parts, c)
                       m    == MarkedOf(P, M, c)
                       u    == ClassSet(P, c) \ m
                   IN  /\ NewId(P, c) \in P.size..(parts.size - 1)
                       /\ new = IF Cardinality(m) <= Cardinality(u) THEN m ELSE u
                       /\ rest = ClassSet(P, c) \ new
                       /\ Cardinality(new) <= Cardinality(rest)
            /\ \A c, d \in Divided(P) : NewId(P, c) = NewId(P, d) => c = d
            /\ \A e \in all : parts.setof[e] # P.setof[e] => parts.setof[e] >= P.size

\* split() has divided a class with more marked than unmarked elements and
\* has left a wholly marked class as it was.
C23_Witness ==
    /\ call.op = "split"
    /\ call.before.num_touched = 2
    /\ Cardinality(Divided(call.before)) = 1
    /\ \E c \in Divided(call.before) :
          call.before.marked[c] > call.before.past[c] - call.before.first[c] - call.before.marked[c]
    /\ parts.size = call.before.size + 1

---------------------------------------------------------------------------
(* union and the invariants of the DisjointSet, on the runs of             *)
(* SpecDisjoint.                                                           *)

\* The set ds once i and j are known to it: union begins with find(i) and
\* find(j), which make the singleton class of an unknown element.
Known(ds, i, j) == make_set(make_set(ds, i), j)

\* The classes of ds: the sets of keys with the same root.
ClassesOf(ds) ==
    {{y \in DOMAIN ds.parent : RootOf(ds.parent, y) = RootOf(ds.parent, x)} :
        x \in DOMAIN ds.parent}

\* C24: union(x, y): if x and y have the same root the classes are unchanged
\* and that root is returned; otherwise the root of lower rank is attached
\* under the root of higher rank, on equal ranks y's root under x's root,
\* whose rank grows by exactly 1, num_equiv decreases by exactly 1 and the
\* value returned is the surviving root, the root of both x and y afterwards.
C24_UnionByRank ==
    call.op = "union" =>
        LET x  == call.args[1]
            y  == call.args[2]
            B  == Known(call.before, x, y)
            xr == RootOf(B.parent, x)
            yr == RootOf(B.parent, y)
            survivor == IF B.rank[xr] < B.rank[yr] THEN yr ELSE xr
            loser    == IF B.rank[xr] < B.rank[yr] THEN xr ELSE yr
        IN  IF xr = yr
            THEN /\ ClassesOf(disjoint) = ClassesOf(B)
                 /\ disjoint.num_equiv = B.num_equiv
                 /\ disjoint.rank = B.rank
                 /\ ret = Some(xr)
            ELSE /\ disjoint.parent[loser] = survivor
                 /\ disjoint.parent[survivor] = survivor
                 /\ B.rank[loser] <= B.rank[survivor]
                 /\ B.rank[xr] = B.rank[yr] => loser = yr
                 /\ disjoint.rank[survivor] =
                       B.rank[survivor] + (IF B.rank[xr] = B.rank[yr] THEN 1 ELSE 0)
                 /\ \A e \in DOMAIN B.rank \ {survivor} : disjoint.rank[e] = B.rank[e]
                 /\ disjoint.num_equiv = B.num_equiv - 1
                 /\ ret = Some(survivor)
                 /\ RootOf(disjoint.parent, x) = survivor
                 /\ RootOf(disjoint.parent, y) = survivor
                 /\ \A e \in DOMAIN B.parent :
                       RootOf(disjoint.parent, e) =
                          IF RootOf(B.parent, e) = loser THEN survivor
                          ELSE RootOf(B.parent, e)

\* A union of two classes of rank 1 has attached the root of y under the
\* root of x and made its rank 2.
C24_Witness ==
    /\ call.op = "union"
    /\ LET x  == call.args[1]
           y  == call.args[2]
           xr == RootIn(call.before, x)
           yr == RootIn(call.before, y)
       IN  /\ xr # yr
           /\ RankIn(call.before, x) = 1
           /\ RankIn(call.before, y) = 1
           /\ disjoint.parent[yr] = xr
           /\ disjoint.rank[xr] = 2

\* The elements on the parent chain from x, x included.
Chain(ds, x) == Closure({<<e, ds.parent[e]>> : e \in DOMAIN ds.parent}, {x}, TRUE)

RootsOf(ds) == {e \in DOMAIN ds.parent : ds.parent[e] = e}

\* Every parent is a key, every parent chain ends at a root, rank increases
\* strictly from a non-root element to its parent, and the counts are those
\* of the keys and of the roots.
WellFormed(ds) ==
    /\ DOMAIN ds.rank = DOMAIN ds.parent
    /\ \A e \in DOMAIN ds.parent : ds.parent[e] \in DOMAIN ds.parent
    /\ \A e \in DOMAIN ds.parent : \E r \in Chain(ds, e) : ds.parent[r] = r
    /\ \A e \in DOMAIN ds.parent :
          /\ ds.rank[e] >= 0
          /\ ds.parent[e] # e => ds.rank[e] < ds.rank[ds.parent[e]]
    /\ ds.num_elems = Cardinality(DOMAIN ds.parent)
    /\ ds.num_equiv = Cardinality(RootsOf(ds))

\* C25: after any sequence of make_set, find and union: every parent is a
\* key, the parent chain from every element ends at a root that is its own
\* parent, rank strictly increases from a non-root element to its parent,
\* num_elems is the number of keys and num_equiv the number of roots;
\* make_set and find on a known key change neither the classes nor the
\* counts.
C25_DisjointSetInvariants ==
    pc = "sets" =>
        /\ WellFormed(disjoint)
        /\ call.op \in {"make_set", "find"} /\ call.args[1] \in DOMAIN call.before.parent =>
              /\ ClassesOf(disjoint) = ClassesOf(call.before)
              /\ disjoint.num_elems = call.before.num_elems
              /\ disjoint.num_equiv = call.before.num_equiv
        /\ call.op = "make_set" /\ call.args[1] \in DOMAIN call.before.parent =>
              disjoint = call.before

\* A find on a known key at the end of a chain of two parents has changed a
\* parent and left the one class of four elements.
C25_Witness ==
    /\ pc = "sets"
    /\ call.op = "find"
    /\ call.args[1] \in DOMAIN call.before.parent
    /\ disjoint.parent # call.before.parent
    /\ disjoint.num_equiv = 1
    /\ disjoint.num_elems = 4

---------------------------------------------------------------------------
(* The state of minimize_valmari after the prunings and at the exit of the *)
(* refinement loop, on the runs of Spec in which it returns.               *)

\* The transitions i < num_trans of the ValmariState V, as triples.
Surviving(V) == {<<V.tails[i], V.labels[i], V.heads[i]>> : i \in 0..(V.num_trans - 1)}

\* The transitions that dfa.iterate() yields.
Transitions(D) == {iterate(D)[i] : i \in DOMAIN iterate(D)}

\* C26: after the forward pruning from the start state and the backward
\* pruning from the reached accepting states, before the split into final
\* and nonfinal states, the positions [0, past[0]) of blocks hold exactly the
\* states of D that are reachable and productive, the first num_finals of
\* them exactly the accepting ones, and the transitions of index < num_trans
\* are exactly the transitions of D from such a state to such a state.
C26_PrunedToUseful ==
    Minimized =>
        LET S == Pruned(dfa)
            useful == UsefulStates(dfa)
        IN  /\ Slice(S.blocks, 0, S.blocks.past[0]) = useful
            /\ S.blocks.past[0] = Cardinality(useful)
            /\ S.v.num_finals <= S.blocks.past[0]
            /\ Slice(S.blocks, 0, S.v.num_finals) = useful \cap dfa.finals
            /\ Surviving(S.v) =
                  {t \in Transitions(dfa) : t[1] \in useful /\ t[3] \in useful}
            /\ S.v.num_trans = Cardinality(Surviving(S.v))

\* The automaton has a transition from an unreachable state, a transition
\* from a useful state to a reachable state that is not productive, and a
\* transition between useful states, one of them accepting.
C26_Witness ==
    /\ Minimized
    /\ \E t \in Transitions(dfa) : t[1] \notin ReachableStates(dfa)
    /\ \E t \in Transitions(dfa) :
          t[1] \in UsefulStates(dfa) /\ t[3] \in ReachableStates(dfa) \ ProductiveStates(dfa)
    /\ UsefulStates(dfa) \cap dfa.finals # {}
    /\ Pruned(dfa).v.num_trans = 1

\* The labels of the surviving transitions that leave state s.
LabelsFrom(V, s) == {t[2] : t \in {x \in Surviving(V) : x[1] = s}}

\* The blocks that the surviving transitions from s with label a lead into.
BlocksFrom(R, s, a) ==
    {R.blocks.setof[t[3]] : t \in {x \in Surviving(R.v) : x[1] = s /\ x[2] = a}}

\* C27: when the refinement loop has exited (cord = cords.size and block =
\* blocks.size), every block holds only accepting or only non-accepting
\* states, and any two useful states of a block have surviving transitions
\* with the same labels, which lead into the same block; so the transitions
\* of the result, taken from one state of each block, are those of every
\* state of the block.
C27_BlocksCompatible ==
    Minimized =>
        LET R == Refined(dfa)
            B == R.blocks
            classes == 0..(B.size - 1)
        IN  /\ R.cord = R.cords.size
            /\ R.block = B.size
            /\ \A c \in classes :
                  ClassSet(B, c) \subseteq dfa.finals \/ ClassSet(B, c) \cap dfa.finals = {}
            /\ \A c \in classes : \A s, t \in ClassSet(B, c) :
                  /\ LabelsFrom(R.v, s) = LabelsFrom(R.v, t)
                  /\ \A a \in LabelsFrom(R.v, s) :
                        /\ BlocksFrom(R, s, a) = BlocksFrom(R, t, a)
                        /\ Cardinality(BlocksFrom(R, s, a)) = 1
            /\ \A c \in classes : \A s \in ClassSet(B, c) :
                  /\ LabelsFrom(R.v, s) =
                        IF c \in DOMAIN min.value.delta THEN DOMAIN min.value.delta[c] ELSE {}
                  /\ \A a \in LabelsFrom(R.v, s) :
                        BlocksFrom(R, s, a) = {min.value.delta[c][a]}

\* A block of the refined partition holds two states with a surviving
\* transition, and there is another block.
C27_Witness ==
    /\ pc = "minimized"
    /\ LET R == Refined(dfa)
       IN  /\ R.blocks.size >= 2
           /\ \E c \in 0..(R.blocks.size - 1) :
                 /\ Cardinality(ClassSet(R.blocks, c)) >= 2
                 /\ \A s \in ClassSet(R.blocks, c) : LabelsFrom(R.v, s) # {}

---------------------------------------------------------------------------
(* The loop of equivalent_hopcroft_karp, one iteration at a time.  pending *)
(* is the queue, disjoint the DisjointSet equiv, call.n the number of      *)
(* triples that were expanded, call.args the order in which self.sigma is  *)
(* iterated, eq the pair returned.                                         *)

LoopMaxStates == 2

LoopMaxTrans == 2

\* The automata over Symbols with the start state 0.
LoopInputs ==
    UNION {UNION {
        {DFA(0..(n - 1), F, Symbols, 0, Nested({x[1] : x \in S}, f)) :
            f \in [S -> 0..(n - 1)], F \in SUBSET (0..(n - 1))} :
        S \in Domains(n, Symbols, LoopMaxTrans)} :
        n \in 1..LoopMaxStates}

InitLoop == \E M \in LoopInputs : Start(M, NoDFA, "given")

\* dfa.equivalent_hopcroft_karp(other):
\* equiv = DisjointSet(); queue = deque([([], self.start, dfa.start)])
HKCall ==
    /\ pc = "given"
    /\ \E N \in LoopInputs : \E order \in SetOrders :
          /\ other' = N
          /\ call' = [op |-> "equivalent_hopcroft_karp", args |-> <<order>>,
                      before |-> DisjointSet, n |-> 0]
          /\ pending' = << <<<<>>, dfa.start, N.start>> >>
    /\ disjoint' = DisjointSet
    /\ pc' = "loop"
    /\ UNCHANGED <<dfa, min, min2, eq, eqr, iso, iso2, unions, ret, parts, marks>>

\* dummy1 + 1, by which the states of the argument are shifted.
Offset == 1 + (1 + Max(dfa.states))

\* equiv.find(q1) and equiv.find(r1 + offset) for the triple at the head of
\* the queue: the roots and the DisjointSet the two calls leave.
Found ==
    LET f1 == find(disjoint, Head(pending)[2])
        f2 == find(f1.ds, Head(pending)[3] + Offset)
    IN  [same |-> f1.root = f2.root, ds |-> f2.ds]

\* if equiv.find(q1) == equiv.find(r1 + offset): continue
HKSkip ==
    /\ pc = "loop" /\ pending # <<>>
    /\ Found.same
    /\ disjoint' = Found.ds
    /\ pending' = Tail(pending)
    /\ UNCHANGED <<dfa, other, pc, min, min2, eq, eqr, iso, iso2, unions, call, ret, parts, marks>>

\* if (q1 in self.finals) ^ (r1 in dfa.finals): return (False, witness)
HKWitness ==
    /\ pc = "loop" /\ pending # <<>>
    /\ ~Found.same
    /\ (Head(pending)[2] \in dfa.finals) # (Head(pending)[3] \in other.finals)
    /\ disjoint' = Found.ds
    /\ eq' = [b |-> FALSE, w |-> Some(Head(pending)[1])]
    /\ pc' = "returned"
    /\ UNCHANGED <<dfa, other, min, min2, eqr, iso, iso2, unions, call, ret, parts, marks, pending>>

\* for symbol in self.sigma: queue.append(...); equiv.union(q1, r1 + offset)
HKExpand ==
    /\ pc = "loop" /\ pending # <<>>
    /\ ~Found.same
    /\ (Head(pending)[2] \in dfa.finals) = (Head(pending)[3] \in other.finals)
    /\ LET witness == Head(pending)[1]
           q1      == Head(pending)[2]
           r1      == Head(pending)[3]
       IN  /\ pending' = Tail(pending) \o
                  Successors(dfa, other, witness, q1, r1,
                             InOrder(LoopSigma(dfa, other), call.args[1]))
           /\ disjoint' = union(Found.ds, q1, r1 + Offset).ds
           /\ unions' = unions \cup {<<q1, r1 + Offset>>}
    /\ call' = [call EXCEPT !.n = call.n + 1]
    /\ UNCHANGED <<dfa, other, pc, min, min2, eq, eqr, iso, iso2, ret, parts, marks>>

\* while queue: ... return (True, None)
HKEqual ==
    /\ pc = "loop" /\ pending = <<>>
    /\ eq' = [b |-> TRUE, w |-> None]
    /\ pc' = "returned"
    /\ UNCHANGED <<dfa, other, min, min2, eqr, iso, iso2, disjoint, unions, call, ret, parts, marks, pending>>

NextLoop == HKCall \/ HKSkip \/ HKWitness \/ HKExpand \/ HKEqual

\* One iteration on the triple at the head of the queue.  One of its three
\* cases applies whenever the queue is not empty.
Dequeue == HKSkip \/ HKWitness \/ HKExpand

\* The method is run by one thread that is not stopped: the call is made,
\* an iteration that can be taken is taken, and the method returns when the
\* queue is empty.  The last conjunct is WF_vars(Dequeue) with the condition
\* under which Dequeue is enabled written out.
SpecLoop ==
    /\ InitLoop /\ [][NextLoop]_vars
    /\ WF_vars(HKCall)
    /\ WF_vars(HKEqual)
    /\ ([]<>(~(pc = "loop" /\ pending # <<>>)) \/ []<><<Dequeue>>_vars)

\* The number of classes the DisjointSet can hold: the states of both
\* automata and the two dummy states.
MaxClasses == Cardinality(dfa.states) + Cardinality(other.states) + 2

\* Every expansion has merged two classes of the DisjointSet.
ExpansionsMerge ==
    /\ disjoint.num_elems - disjoint.num_equiv = call.n
    /\ call.n <= MaxClasses - 1
    /\ disjoint.num_elems <= MaxClasses

\* The queue holds the triples enqueued and not yet dequeued: one at the
\* start and |Sigma_M| for each expansion.
QueueBounded == Len(pending) <= 1 + call.n * Cardinality(dfa.sigma)

\* The pair returned is the pair the method returns.
ReturnsTheResult ==
    pc = "returned" => eq = equivalent_hopcroft_karp(dfa, other, call.args[1])

\* C28: equivalent_hopcroft_karp always terminates: every dequeued triple is
\* skipped, returns a witness or ends with a union of two distinct classes,
\* so at most |Q_M| + |Q_N| + 1 triples are expanded, each enqueuing
\* |Sigma_M| successors, and the queue becomes empty or a result is
\* returned, also when transitions cycle or lead into the dummy sinks.
C28_Terminates ==
    /\ [](ExpansionsMerge /\ QueueBounded /\ ReturnsTheResult)
    /\ <>(pc = "returned")

\* (True, None) is returned after three expansions, one of a pair of dummy
\* states, for automata with a cycle.
C28_Witness ==
    /\ pc = "returned"
    /\ eq = [b |-> TRUE, w |-> None]
    /\ call.n >= 3
    /\ \E p \in unions : p[1] = 1 + Max(dfa.states)
    /\ \E t \in Transitions(dfa) : t[1] = t[3]

=============================================================================
